---- MODULE Spec2Model ----
(***************************************************************************)
(* State-machine model of the ingestion ledger (app/services/              *)
(* mongodb_service.py) and of the ingestion pipeline that drives it        *)
(* (app/services/ingestion_service.py).                                    *)
(*                                                                         *)
(* The ledger is a MongoDB database with two collections, ocr_jobs and     *)
(* ocr_docs.  A collection is a sequence of records; the _id of a record   *)
(* is its position in the sequence (ids are never reused, nothing is ever  *)
(* deleted).  Every pymongo call (find_one, insert_one, update_one,        *)
(* create_index) is one atomic step of the store.  Callers are worker      *)
(* processes sharing the store: create_job and create_doc are a find_one   *)
(* followed by an update_one or insert_one, and steps of different workers *)
(* interleave between the two.                                             *)
(*                                                                         *)
(* The chat workflow (app/routers/chat.py, app/langgraph/), the context    *)
(* builders of app/services/pinecone_service.py and the OCR service        *)
(* (app/services/ocr_service.py) are modelled further down, each with its  *)
(* own specification over the same variables.                              *)
(***************************************************************************)
EXTENDS Integers, Sequences, FiniteSets, TLC

VARIABLES
    svc,         \* service_manager.mongodb_service: "starting" | "available" | "unavailable"
    startupLog,  \* what _create_indexes logged: the set of error kinds it met
    uniqueJobs,  \* the unique index on ocr_jobs.dataset_name exists
    uniqueDocs,  \* the unique index on ocr_docs (dataset_name, source_drive_file_id) exists
    jobs,        \* collection ocr_jobs
    docs,        \* collection ocr_docs
    clock,       \* datetime.now(timezone.utc), as a logical time
    calls,       \* per worker: the ledger call in flight and its local variables
    hist,        \* history: the ledger calls that completed, with what they returned
    sent,        \* history: per job and counter, the increments passed since the job's last reset
    raced,       \* history: two upserts on one natural key overlapped (lookup during the other's lookup-to-write window)
    runs,        \* per run_pipeline invocation: its position and local variables
    outputs,     \* Google Drive: the OCR JSON artifacts that exist, by (dataset, source file)
    embedLog,    \* OpenAI / Pinecone: the embedding generations and upserts made, by run and file
    settings,    \* app.config.settings: the retrieval settings read from the environment
    chat,        \* one request to the chat endpoint: its position in the graph and its state
    ctx,         \* one call of a context builder: its arguments and what it returned
    ocrCall      \* one call into the OCR service: its arguments and what it returned

vars == <<svc, startupLog, uniqueJobs, uniqueDocs, jobs, docs, clock, calls, hist,
          sent, raced, runs, outputs, embedLog, settings, chat, ctx, ocrCall>>

pipeVars == <<runs, outputs, embedLog>>
chatVars == <<settings, chat, ctx>>

----------------------------------------------------------------------------
(* Bounds of the model *)

\* logical time stops here: every ledger call reads the clock and advances it
MaxClock == 5
\* the same for the calls on the docs collection
MaxDocClock == 4

Datasets == {"A", "B"}
Files == {"f1", "f2"}
Workers == {"w1", "w2"}
\* Python's None, for string-valued fields
None == "None"

\* the chat workflow at rest: settings not read, no request, no context being built
NoSettings == [loaded |-> FALSE]
NoChat == [pc |-> "idle"]
NoCtx == [pc |-> "idle"]
NoOcr == [pc |-> "idle"]
ChatIdle ==
    /\ settings = NoSettings
    /\ chat = NoChat
    /\ ocrCall = NoOcr
    /\ ctx = NoCtx

----------------------------------------------------------------------------
(* Records of the ledger *)

CounterKeys == {"files_discovered", "files_processed", "files_failed", "pages_processed",
                "pages_without_text", "chunks_emitted", "lang_undetected_count"}
EmbeddingCounterKeys == {"files_embedded", "embeddings_stored", "files_embedding_failed"}
CountKeys == {"pages_total", "pages_without_text", "chunks_emitted", "lang_undetected_count"}

ZeroCounters == [k \in CounterKeys |-> 0]
ZeroEmbeddingCounters == [k \in EmbeddingCounterKeys |-> 0]
ZeroCounts == [k \in CountKeys |-> 0]

\* the record insert_one stores for a new job (created_at = 0 would model a record without the field)
NewJob(dataset_name, input_folder_id, output_folder_id, now) ==
    [dataset_name |-> dataset_name,
     input_folder_id |-> input_folder_id,
     output_folder_id |-> output_folder_id,
     status |-> "running",
     counters |-> ZeroCounters,
     embedding_counters |-> ZeroEmbeddingCounters,
     created_at |-> now,
     updated_at |-> now]

----------------------------------------------------------------------------
(* Startup: MongoDBService.__init__ and main.startup_event *)

HasDuplicateJobs(js) ==
    \E i, j \in 1..Len(js) : i # j /\ js[i].dataset_name = js[j].dataset_name

HasDuplicateDocs(ds) ==
    \E i, j \in 1..Len(ds) : i # j /\ ds[i].dataset_name = ds[j].dataset_name
                                   /\ ds[i].source_drive_file_id = ds[j].source_drive_file_id

\* what one create_index call can do: a plain index is built or fails for some other
\* reason; a unique index over duplicate records fails with a duplicate key error (E11000)
PlainIndexOutcomes == {"ok", "other"}
UniqueIndexOutcomes(duplicates) == IF duplicates THEN {"dup", "other"} ELSE {"ok", "other"}

\* the body of the outer try of _create_indexes: o1 the plain ocr_jobs indexes, o2 the
\* unique ocr_jobs index, o3 the plain ocr_docs indexes, o4 the unique ocr_docs index.
\* exc: an exception leaves the body (a plain index failed, or the "raise" of the
\* duplicate-key branch); uj, ud: the unique indexes built; log: the errors logged
IndexBody(o1, o2, o3, o4) ==
    IF o1 # "ok" THEN [exc |-> TRUE, uj |-> FALSE, ud |-> FALSE, log |-> {}]
    ELSE IF o2 = "dup" THEN [exc |-> TRUE, uj |-> FALSE, ud |-> FALSE, log |-> {"duplicate jobs"}]
    ELSE IF o3 # "ok" THEN [exc |-> TRUE, uj |-> (o2 = "ok"), ud |-> FALSE, log |-> {}]
    ELSE IF o4 = "dup" THEN [exc |-> TRUE, uj |-> (o2 = "ok"), ud |-> FALSE, log |-> {"duplicate docs"}]
    ELSE [exc |-> FALSE, uj |-> (o2 = "ok"), ud |-> (o4 = "ok"), log |-> {}]

\* _create_indexes: the outer "except Exception" logs a warning and returns, whatever
\* left the body, so nothing is ever raised to __init__
CreateIndexes(o1, o2, o3, o4) ==
    LET b == IndexBody(o1, o2, o3, o4)
    IN [raised |-> FALSE, uj |-> b.uj, ud |-> b.ud, log |-> b.log]

\* startup_event: MongoDBService() connects and creates the indexes; if the constructor
\* raises, the error is logged and the service stays unset (get_mongodb_service raises)
Startup ==
    /\ svc = "starting"
    /\ \E conn \in {"ok", "fail"}, o1 \in PlainIndexOutcomes, o3 \in PlainIndexOutcomes,
          o2 \in UniqueIndexOutcomes(HasDuplicateJobs(jobs)),
          o4 \in UniqueIndexOutcomes(HasDuplicateDocs(docs)) :
          LET r == CreateIndexes(o1, o2, o3, o4)
          IN IF conn = "fail"
             THEN /\ svc' = "unavailable"
                  /\ UNCHANGED <<startupLog, uniqueJobs, uniqueDocs>>
             ELSE /\ svc' = IF r.raised THEN "unavailable" ELSE "available"
                  /\ startupLog' = r.log
                  /\ uniqueJobs' = r.uj
                  /\ uniqueDocs' = r.ud
    /\ UNCHANGED <<jobs, docs, clock, calls, hist, sent, raced>>
    /\ UNCHANGED <<pipeVars, chatVars, ocrCall>>

----------------------------------------------------------------------------
(* Jobs: create_job, update_job_counters, update_job_embedding_counters, finish_job *)

Idle == [op |-> "idle"]
ZeroSent == [counters |-> ZeroCounters, embedding_counters |-> ZeroEmbeddingCounters]

\* a lookup that never matches (filter on a field the records do not carry)
FindJobNoMatch(js, dataset_name) == 0

\* find_one({"dataset_name": dataset_name}): the _id of the first match, 0 for None
FindJob(js, dataset_name) ==
    LET m == {i \in 1..Len(js) : js[i].dataset_name = dataset_name}
    IN IF m = {} THEN 0 ELSE CHOOSE i \in m : \A j \in m : i <= j

\* a reset that forgets the counters sub-document
ResetJobKeepCounters(job, input_folder_id, output_folder_id, now, had_created_at) ==
    [job EXCEPT !.input_folder_id = input_folder_id,
                !.output_folder_id = output_folder_id,
                !.status = "running",
                !.embedding_counters = ZeroEmbeddingCounters,
                !.updated_at = now,
                !.created_at = IF had_created_at THEN @ ELSE now]

\* a reset that stamps created_at like the insert does
ResetJobStampCreated(job, input_folder_id, output_folder_id, now, had_created_at) ==
    [job EXCEPT !.input_folder_id = input_folder_id,
                !.output_folder_id = output_folder_id,
                !.status = "running",
                !.counters = ZeroCounters,
                !.embedding_counters = ZeroEmbeddingCounters,
                !.updated_at = now,
                !.created_at = now]

\* the $set of create_job on an existing job; had_created_at is what the lookup saw
ResetJob(job, input_folder_id, output_folder_id, now, had_created_at) ==
    [job EXCEPT !.input_folder_id = input_folder_id,
                !.output_folder_id = output_folder_id,
                !.status = "running",
                !.counters = ZeroCounters,
                !.embedding_counters = ZeroEmbeddingCounters,
                !.updated_at = now,
                !.created_at = IF had_created_at THEN @ ELSE now]

\* insert_one on ocr_jobs under the unique index: the key is already taken
JobKeyTaken(js, unique, dataset_name) ==
    unique /\ \E i \in 1..Len(js) : js[i].dataset_name = dataset_name

\* $set where $inc was meant: the passed value overwrites the stored one
SetFields(cur, d) ==
    [k \in DOMAIN cur |-> IF k \in DOMAIN d THEN d[k] ELSE cur[k]]

\* $inc of every passed field: cur the stored counters, d the increments passed
IncFields(cur, d) ==
    [k \in DOMAIN cur |-> IF k \in DOMAIN d THEN cur[k] + d[k] ELSE cur[k]]

\* create_job, first half: now = datetime.now(); existing_job = find_one(...)
CreateJobFind(w, dataset_name, input_folder_id, output_folder_id) ==
    /\ svc = "available"
    /\ calls[w] = Idle
    /\ clock < MaxClock
    /\ LET e == FindJob(jobs, dataset_name)
       IN calls' = [calls EXCEPT ![w] =
                       [op |-> "create_job", dataset_name |-> dataset_name,
                        input_folder_id |-> input_folder_id,
                        output_folder_id |-> output_folder_id,
                        now |-> clock, existing |-> e,
                        had_created_at |-> IF e = 0 THEN FALSE ELSE jobs[e].created_at # 0]]
    /\ raced' = (raced \/ \E v \in Workers \ {w} :
                             /\ calls[v].op = "create_job"
                             /\ calls[v].dataset_name = dataset_name)
    /\ clock' = clock + 1
    /\ UNCHANGED <<svc, startupLog, uniqueJobs, uniqueDocs, jobs, docs, hist, sent>>
    /\ UNCHANGED <<pipeVars, chatVars, ocrCall>>

\* create_job, second half: update_one on the job found, or insert_one of a new job
\* (which the unique index rejects with DuplicateKeyError when the key is taken; the
\* error is not caught in create_job and the call fails)
CreateJobWrite(w) ==
    /\ calls[w].op = "create_job"
    /\ LET c == calls[w]
       IN IF c.existing # 0
          THEN /\ jobs' = [jobs EXCEPT ![c.existing] =
                              ResetJob(@, c.input_folder_id, c.output_folder_id, c.now,
                                       c.had_created_at)]
               /\ sent' = [sent EXCEPT ![c.existing] = ZeroSent]
               /\ hist' = hist \cup {[op |-> "create_job", key |-> <<c.dataset_name>>,
                                      at |-> c.now, raised |-> FALSE, id |-> c.existing,
                                      existed |-> TRUE]}
          ELSE IF JobKeyTaken(jobs, uniqueJobs, c.dataset_name)
          THEN /\ UNCHANGED <<jobs, sent>>
               /\ hist' = hist \cup {[op |-> "create_job", key |-> <<c.dataset_name>>,
                                      at |-> c.now, raised |-> TRUE, id |-> 0,
                                      existed |-> FALSE]}
          ELSE /\ jobs' = Append(jobs, NewJob(c.dataset_name, c.input_folder_id,
                                              c.output_folder_id, c.now))
               /\ sent' = Append(sent, ZeroSent)
               /\ hist' = hist \cup {[op |-> "create_job", key |-> <<c.dataset_name>>,
                                      at |-> c.now, raised |-> FALSE, id |-> Len(jobs) + 1,
                                      existed |-> FALSE]}
    /\ calls' = [calls EXCEPT ![w] = Idle]
    /\ UNCHANGED <<svc, startupLog, uniqueJobs, uniqueDocs, docs, clock, raced>>
    /\ UNCHANGED <<pipeVars, chatVars, ocrCall>>

\* the increments the callers pass to update_job_counters
CounterDeltas ==
    {[files_discovered |-> 2],
     [files_processed |-> 1, chunks_emitted |-> 2],
     [files_failed |-> 1]}

\* update_job_counters(job_id, counters): one update_one with $inc and $set updated_at
UpdateJobCounters(w, job_id, d) ==
    /\ svc = "available"
    /\ calls[w] = Idle
    /\ clock < MaxClock
    /\ job_id \in 1..Len(jobs)
    /\ jobs' = [jobs EXCEPT ![job_id].counters = IncFields(@, d),
                            ![job_id].updated_at = clock]
    /\ sent' = [sent EXCEPT ![job_id].counters =
                   [k \in CounterKeys |-> IF k \in DOMAIN d THEN @[k] + d[k] ELSE @[k]]]
    /\ clock' = clock + 1
    /\ UNCHANGED <<svc, startupLog, uniqueJobs, uniqueDocs, docs, calls, hist, raced>>
    /\ UNCHANGED <<pipeVars, chatVars, ocrCall>>

EmbeddingCounterDeltas ==
    {[files_embedded |-> 1, embeddings_stored |-> 2],
     [files_embedding_failed |-> 1]}

\* update_job_embedding_counters(job_id, counters)
UpdateJobEmbeddingCounters(w, job_id, d) ==
    /\ svc = "available"
    /\ calls[w] = Idle
    /\ clock < MaxClock
    /\ job_id \in 1..Len(jobs)
    /\ jobs' = [jobs EXCEPT ![job_id].embedding_counters = IncFields(@, d),
                            ![job_id].updated_at = clock]
    /\ sent' = [sent EXCEPT ![job_id].embedding_counters =
                   [k \in EmbeddingCounterKeys |-> IF k \in DOMAIN d THEN @[k] + d[k] ELSE @[k]]]
    /\ clock' = clock + 1
    /\ UNCHANGED <<svc, startupLog, uniqueJobs, uniqueDocs, docs, calls, hist, raced>>
    /\ UNCHANGED <<pipeVars, chatVars, ocrCall>>

TerminalStatuses == {"completed", "completed_with_errors", "failed"}

\* finish_job(job_id, status)
FinishJob(w, job_id, status) ==
    /\ svc = "available"
    /\ calls[w] = Idle
    /\ clock < MaxClock
    /\ job_id \in 1..Len(jobs)
    /\ jobs' = [jobs EXCEPT ![job_id].status = status, ![job_id].updated_at = clock]
    /\ clock' = clock + 1
    /\ UNCHANGED <<svc, startupLog, uniqueJobs, uniqueDocs, docs, calls, hist, sent, raced>>
    /\ UNCHANGED <<pipeVars, chatVars, ocrCall>>

Folders == {"folder1", "folder2"}

NextJobs ==
    \/ \E w \in Workers, d \in Datasets, f \in Folders : CreateJobFind(w, d, f, f)
    \/ \E w \in Workers : CreateJobWrite(w)
    \/ \E w \in Workers, j \in 1..Len(jobs), d \in CounterDeltas : UpdateJobCounters(w, j, d)
    \/ \E w \in Workers, j \in 1..Len(jobs), d \in EmbeddingCounterDeltas :
          UpdateJobEmbeddingCounters(w, j, d)
    \/ \E w \in Workers, j \in 1..Len(jobs), s \in TerminalStatuses : FinishJob(w, j, s)

\* the ledger after a startup that built (or failed to build) the unique indexes on an
\* empty database
InitLedger ==
    /\ svc = "available"
    /\ startupLog = {}
    /\ uniqueJobs \in BOOLEAN
    /\ uniqueDocs = uniqueJobs
    /\ jobs = <<>>
    /\ docs = <<>>
    /\ clock = 1
    /\ calls = [w \in Workers |-> Idle]
    /\ hist = {}
    /\ sent = <<>>
    /\ raced = FALSE
    /\ runs = <<>>
    /\ outputs = {}
    /\ embedLog = {}
    /\ ChatIdle

SpecJobs == InitLedger /\ [][NextJobs]_vars

----------------------------------------------------------------------------
(* Docs: create_doc, update_doc_status, update_doc_output, update_doc_counts,
   mark_doc_embedded, is_doc_embedded *)

\* the name of the Pinecone index, IngestionService.pinecone_index_name
PineconeIndexName == "idp-etechtexas-rag"

\* the source_url the callers build from the file id
SourceUrl(file_id) == <<"https://drive.google.com/file/d/", file_id, "/view">>
\* the path of a listed file
SourcePath(dataset_name, file_id) == <<dataset_name, file_id>>

\* the record insert_one stores for a new doc.  An optional integer or time is <<>> for
\* None and <<v>> for the value v
NewDoc(job_id, dataset_name, source_drive_file_id, source_path, source_url, now) ==
    [job_id |-> job_id,
     dataset_name |-> dataset_name,
     source_drive_file_id |-> source_drive_file_id,
     source_path |-> source_path,
     source_url |-> source_url,
     output_drive_file_id |-> None,
     output_path |-> None,
     status |-> "queued",
     message |-> "",
     counts |-> ZeroCounts,
     embedded |-> FALSE,
     embeddings_count |-> <<>>,
     pinecone_index |-> None,
     embedded_at |-> <<>>,
     created_at |-> now,
     updated_at |-> now]

\* a lookup that filters on the file id alone
FindDocByFile(ds, dataset_name, source_drive_file_id) ==
    LET m == {i \in 1..Len(ds) : ds[i].source_drive_file_id = source_drive_file_id}
    IN IF m = {} THEN 0 ELSE CHOOSE i \in m : \A j \in m : i <= j

\* find_one({"dataset_name": ..., "source_drive_file_id": ...}): the _id of the first
\* match, 0 for None
FindDoc(ds, dataset_name, source_drive_file_id) ==
    LET m == {i \in 1..Len(ds) : /\ ds[i].dataset_name = dataset_name
                                 /\ ds[i].source_drive_file_id = source_drive_file_id}
    IN IF m = {} THEN 0 ELSE CHOOSE i \in m : \A j \in m : i <= j

\* a reset that leaves the embedding fields of the last run in place
ResetDocKeepEmbedding(doc, job_id, source_path, source_url, now, had_created_at) ==
    [doc EXCEPT !.job_id = job_id,
                !.source_path = source_path,
                !.status = "queued",
                !.message = "",
                !.counts = ZeroCounts,
                !.updated_at = now,
                !.source_url = IF source_url # <<>> THEN source_url ELSE @,
                !.created_at = IF had_created_at THEN @ ELSE now]

\* a reset that clears the embedding count and index but leaves the embedded flag
ResetDocKeepFlag(doc, job_id, source_path, source_url, now, had_created_at) ==
    [doc EXCEPT !.job_id = job_id,
                !.source_path = source_path,
                !.status = "queued",
                !.message = "",
                !.counts = ZeroCounts,
                !.embeddings_count = <<>>,
                !.pinecone_index = None,
                !.embedded_at = <<>>,
                !.updated_at = now,
                !.source_url = IF source_url # <<>> THEN source_url ELSE @,
                !.created_at = IF had_created_at THEN @ ELSE now]

\* the $set of create_doc on an existing doc; an empty source_url (<<>>) is not written
ResetDoc(doc, job_id, source_path, source_url, now, had_created_at) ==
    [doc EXCEPT !.job_id = job_id,
                !.source_path = source_path,
                !.status = "queued",
                !.message = "",
                !.counts = ZeroCounts,
                !.embedded = FALSE,
                !.embeddings_count = <<>>,
                !.pinecone_index = None,
                !.embedded_at = <<>>,
                !.updated_at = now,
                !.source_url = IF source_url # <<>> THEN source_url ELSE @,
                !.created_at = IF had_created_at THEN @ ELSE now]

\* insert_one on ocr_docs under the unique compound index: the key is already taken
DocKeyTaken(ds, unique, dataset_name, source_drive_file_id) ==
    unique /\ \E i \in 1..Len(ds) : /\ ds[i].dataset_name = dataset_name
                                    /\ ds[i].source_drive_file_id = source_drive_file_id

\* the $set of update_doc_status
SetDocStatus(doc, status, message, now) ==
    [doc EXCEPT !.status = status, !.message = message, !.updated_at = now]

\* the $set of update_doc_output
SetDocOutput(doc, output_drive_file_id, output_path, now) ==
    [doc EXCEPT !.output_drive_file_id = output_drive_file_id,
                !.output_path = output_path,
                !.updated_at = now]

\* the $set of update_doc_counts: every passed count overwrites the stored one
SetDocCounts(doc, counts, now) ==
    [doc EXCEPT !.counts = [k \in DOMAIN @ |-> IF k \in DOMAIN counts THEN counts[k] ELSE @[k]],
                !.updated_at = now]

\* the $set of mark_doc_embedded
SetDocEmbedded(doc, embeddings_count, pinecone_index, now) ==
    [doc EXCEPT !.embedded = TRUE,
                !.embeddings_count = <<embeddings_count>>,
                !.pinecone_index = pinecone_index,
                !.embedded_at = <<now>>,
                !.updated_at = now]

\* is_doc_embedded: find_one({"source_drive_file_id", "dataset_name", "embedded": True})
IsDocEmbedded(ds, source_drive_file_id, dataset_name) ==
    \E i \in 1..Len(ds) : /\ ds[i].source_drive_file_id = source_drive_file_id
                          /\ ds[i].dataset_name = dataset_name
                          /\ ds[i].embedded

\* create_doc, first half: now = datetime.now(); existing_doc = find_one(...)
CreateDocFind(w, job_id, dataset_name, source_drive_file_id) ==
    /\ svc = "available"
    /\ calls[w] = Idle
    /\ clock < MaxDocClock
    /\ LET e == FindDoc(docs, dataset_name, source_drive_file_id)
       IN calls' = [calls EXCEPT ![w] =
                       [op |-> "create_doc", job_id |-> job_id,
                        dataset_name |-> dataset_name,
                        source_drive_file_id |-> source_drive_file_id,
                        source_path |-> SourcePath(dataset_name, source_drive_file_id),
                        source_url |-> SourceUrl(source_drive_file_id),
                        now |-> clock, existing |-> e,
                        had_created_at |-> IF e = 0 THEN FALSE ELSE docs[e].created_at # 0]]
    /\ raced' = (raced \/ \E v \in Workers \ {w} :
                             /\ calls[v].op = "create_doc"
                             /\ calls[v].dataset_name = dataset_name
                             /\ calls[v].source_drive_file_id = source_drive_file_id)
    /\ clock' = clock + 1
    /\ UNCHANGED <<svc, startupLog, uniqueJobs, uniqueDocs, jobs, docs, hist, sent>>
    /\ UNCHANGED <<pipeVars, chatVars, ocrCall>>

\* create_doc, second half: update_one on the doc found, or insert_one of a new doc
\* (DuplicateKeyError under the unique index when the key is taken; not caught)
CreateDocWrite(w) ==
    /\ calls[w].op = "create_doc"
    /\ LET c == calls[w]
           k == <<c.dataset_name, c.source_drive_file_id>>
       IN IF c.existing # 0
          THEN /\ docs' = [docs EXCEPT ![c.existing] =
                              ResetDoc(@, c.job_id, c.source_path, c.source_url, c.now,
                                       c.had_created_at)]
               /\ hist' = hist \cup {[op |-> "create_doc", key |-> k, at |-> c.now,
                                      raised |-> FALSE, id |-> c.existing, existed |-> TRUE,
                                      before |-> <<docs[c.existing].embedded, docs[c.existing].job_id>>]}
          ELSE IF DocKeyTaken(docs, uniqueDocs, c.dataset_name, c.source_drive_file_id)
          THEN /\ UNCHANGED docs
               /\ hist' = hist \cup {[op |-> "create_doc", key |-> k, at |-> c.now,
                                      raised |-> TRUE, id |-> 0, existed |-> FALSE,
                                      before |-> <<>>]}
          ELSE /\ docs' = Append(docs, NewDoc(c.job_id, c.dataset_name,
                                              c.source_drive_file_id, c.source_path,
                                              c.source_url, c.now))
               /\ hist' = hist \cup {[op |-> "create_doc", key |-> k, at |-> c.now,
                                      raised |-> FALSE, id |-> Len(docs) + 1,
                                      existed |-> FALSE, before |-> <<>>]}
    /\ calls' = [calls EXCEPT ![w] = Idle]
    /\ UNCHANGED <<svc, startupLog, uniqueJobs, uniqueDocs, jobs, clock, sent, raced>>
    /\ UNCHANGED <<pipeVars, chatVars, ocrCall>>

\* update_doc_status(doc_id, status, message)
UpdateDocStatus(w, doc_id, status, message) ==
    /\ svc = "available"
    /\ calls[w] = Idle
    /\ clock < MaxDocClock
    /\ doc_id \in 1..Len(docs)
    /\ docs' = [docs EXCEPT ![doc_id] = SetDocStatus(@, status, message, clock)]
    /\ clock' = clock + 1
    /\ UNCHANGED <<svc, startupLog, uniqueJobs, uniqueDocs, jobs, calls, hist, sent, raced>>
    /\ UNCHANGED <<pipeVars, chatVars, ocrCall>>

\* update_doc_output(doc_id, output_drive_file_id, output_path)
UpdateDocOutput(w, doc_id, output_drive_file_id, output_path) ==
    /\ svc = "available"
    /\ calls[w] = Idle
    /\ clock < MaxDocClock
    /\ doc_id \in 1..Len(docs)
    /\ docs' = [docs EXCEPT ![doc_id] =
                   SetDocOutput(@, output_drive_file_id, output_path, clock)]
    /\ clock' = clock + 1
    /\ UNCHANGED <<svc, startupLog, uniqueJobs, uniqueDocs, jobs, calls, hist, sent, raced>>
    /\ UNCHANGED <<pipeVars, chatVars, ocrCall>>

\* update_doc_counts(doc_id, counts)
UpdateDocCounts(w, doc_id, counts) ==
    /\ svc = "available"
    /\ calls[w] = Idle
    /\ clock < MaxDocClock
    /\ doc_id \in 1..Len(docs)
    /\ docs' = [docs EXCEPT ![doc_id] = SetDocCounts(@, counts, clock)]
    /\ clock' = clock + 1
    /\ UNCHANGED <<svc, startupLog, uniqueJobs, uniqueDocs, jobs, calls, hist, sent, raced>>
    /\ UNCHANGED <<pipeVars, chatVars, ocrCall>>

\* mark_doc_embedded(doc_id, embeddings_count, pinecone_index)
MarkDocEmbedded(w, doc_id, embeddings_count, pinecone_index) ==
    /\ svc = "available"
    /\ calls[w] = Idle
    /\ clock < MaxDocClock
    /\ doc_id \in 1..Len(docs)
    /\ docs' = [docs EXCEPT ![doc_id] =
                   SetDocEmbedded(@, embeddings_count, pinecone_index, clock)]
    /\ clock' = clock + 1
    /\ UNCHANGED <<svc, startupLog, uniqueJobs, uniqueDocs, jobs, calls, hist, sent, raced>>
    /\ UNCHANGED <<pipeVars, chatVars, ocrCall>>

\* the natural keys the callers of create_doc pass: two files of one dataset, and one
\* file id in two datasets
DocKeys == {<<"A", "f1">>, <<"A", "f2">>, <<"B", "f1">>}
\* the job ids the callers of create_doc hold
JobIds == {1, 2}
DocStatuses == {"ok", "failed"}
DocCounts == {[pages_total |-> 2, pages_without_text |-> 1, chunks_emitted |-> 3,
               lang_undetected_count |-> 1]}

NextDocs ==
    \/ \E w \in Workers, j \in JobIds, k \in DocKeys : CreateDocFind(w, j, k[1], k[2])
    \/ \E w \in Workers : CreateDocWrite(w)
    \/ \E w \in Workers, i \in 1..Len(docs), s \in DocStatuses : UpdateDocStatus(w, i, s, s)
    \/ \E w \in Workers, i \in 1..Len(docs) : UpdateDocOutput(w, i, "json", "path")
    \/ \E w \in Workers, i \in 1..Len(docs), c \in DocCounts : UpdateDocCounts(w, i, c)
    \/ \E w \in Workers, i \in 1..Len(docs) : MarkDocEmbedded(w, i, 3, PineconeIndexName)

SpecDocs == InitLedger /\ [][NextDocs]_vars

----------------------------------------------------------------------------
(* IngestionService.run_pipeline.  A run is a worker's request: its prelude (create_job,
   list the folder, files_discovered), one step per listed file (the body of the for
   loop), and its end (finish_job, the returned dictionary).  Steps of two runs
   interleave between these; inside a step every ledger call is made whole.  The
   clock is read by every ledger call and advances between requests. *)

RunIds == {"r1", "r2"}
NoRun == [pc |-> "idle"]

\* create_job as one call: the lookup and the write
CreateJob(js, dataset_name, input_folder_id, output_folder_id, now) ==
    LET e == FindJob(js, dataset_name)
    IN IF e # 0
       THEN [jobs |-> [js EXCEPT ![e] = ResetJob(@, input_folder_id, output_folder_id, now,
                                                 js[e].created_at # 0)],
             id |-> e]
       ELSE [jobs |-> Append(js, NewJob(dataset_name, input_folder_id, output_folder_id, now)),
             id |-> Len(js) + 1]

\* create_doc as one call: the lookup and the write
CreateDoc(ds, job_id, dataset_name, source_drive_file_id, source_path, source_url, now) ==
    LET e == FindDoc(ds, dataset_name, source_drive_file_id)
    IN IF e # 0
       THEN [docs |-> [ds EXCEPT ![e] = ResetDoc(@, job_id, source_path, source_url, now,
                                                 ds[e].created_at # 0)],
             id |-> e]
       ELSE [docs |-> Append(ds, NewDoc(job_id, dataset_name, source_drive_file_id,
                                        source_path, source_url, now)),
             id |-> Len(ds) + 1]

\* the listings list_files_in_folder can return: no file, one file, two files
Listings == {<<>>, <<"f1">>, <<"f2", "f1">>}

\* what process_document can return for a file: no extractable text, or chunks
OcrResults ==
    {[chunks_emitted |-> 0, total_page_count |-> 1, pages_without_text |-> 1,
      lang_undetected |-> FALSE],
     [chunks_emitted |-> 1, total_page_count |-> 2, pages_without_text |-> 1,
      lang_undetected |-> TRUE]}

\* what list_files_in_folder does: it returns a listing or raises
ListingOutcomes ==
    {[raised |-> FALSE, files |-> l] : l \in Listings} \cup {[raised |-> TRUE, files |-> <<>>]}

\* the files of a dataset whose doc is marked embedded
EmbeddedFiles(ds, dataset_name) ==
    {f \in Files : IsDocEmbedded(ds, f, dataset_name)}

\* Requests and datasets are interchangeable, so the first request is named r1 and the
\* first dataset ingested is named A
FirstUse(r, dataset_name) ==
    /\ r = "r2" => runs["r1"] # NoRun
    /\ dataset_name = "B" => Len(jobs) > 0

\* the prelude of run_pipeline up to the for loop.  When listing the folder fails, the
\* job is finished as "failed" and ValueError is raised
StartRun(r, dataset_name, force, listing) ==
    /\ svc = "available"
    /\ runs[r] = NoRun
    /\ FirstUse(r, dataset_name)
    /\ LET cj == CreateJob(jobs, dataset_name, "folder1", "folder1", clock)
           job_id == cj.id
           run == [pc |-> "loop", dataset_name |-> dataset_name, force |-> force,
                   files |-> <<>>, i |-> 1, job_id |-> job_id,
                   files_processed |-> 0, files_skipped |-> 0, files_failed |-> 0,
                   embeddings_stored |-> 0, files_embedded |-> 0,
                   files_embedding_failed |-> 0,
                   embedded_before |-> EmbeddedFiles(docs, dataset_name)]
       IN IF listing.raised
          THEN /\ jobs' = [cj.jobs EXCEPT ![job_id].status = "failed"]
               /\ runs' = [runs EXCEPT ![r] = [run EXCEPT !.pc = "raised"]]
          ELSE /\ jobs' = [cj.jobs EXCEPT ![job_id].counters =
                              IncFields(@, [files_discovered |-> Len(listing.files)])]
               /\ runs' = [runs EXCEPT ![r] = [run EXCEPT !.files = listing.files]]
    /\ clock' = clock + 1
    /\ UNCHANGED <<svc, startupLog, uniqueJobs, uniqueDocs, docs, calls, hist, sent, raced>>
    /\ UNCHANGED <<outputs, embedLog>>
    /\ UNCHANGED <<chatVars, ocrCall>>

\* the "except Exception" of the per-file try: the doc is marked failed, files_failed is
\* counted, and under force the exception is raised again and ends the run
FileFailed(run, js, ds, outs, elog, doc_id, now) ==
    [jobs |-> [js EXCEPT ![run.job_id].counters = IncFields(@, [files_failed |-> 1]),
                         ![run.job_id].updated_at = now],
     docs |-> [ds EXCEPT ![doc_id] = SetDocStatus(@, "failed", "error", now)],
     outputs |-> outs,
     embedLog |-> elog,
     run |-> [run EXCEPT !.files_failed = @ + 1,
                         !.i = IF run.force THEN @ ELSE @ + 1,
                         !.pc = IF run.force THEN "raised" ELSE @]]

\* the counts update_doc_counts and update_job_counters are passed for an OCR result
OcrCounts(ocr) ==
    [pages_total |-> ocr.total_page_count,
     pages_without_text |-> ocr.pages_without_text,
     chunks_emitted |-> ocr.chunks_emitted,
     lang_undetected_count |-> IF ocr.lang_undetected THEN 1 ELSE 0]

\* the embedding block of one file ("if not skip_embedding: try: ... except ...").
\* emb = "ok": every call succeeds; emb = "raise": a call raises after `done` chunks
\* were embedded (extract_text, extract_metadata's caller or the first
\* generate_embedding for done = 0, a later generate_embedding, or the Pinecone upsert
\* for done = the number of chunks)
EmbedFile(run, r, js, ds, outs, elog, doc_id, file_id, ocr, now, emb, done) ==
    LET n == ocr.chunks_emitted
        ds1 == [ds EXCEPT ![doc_id] =
                   SetDocStatus(@, "processing",
                                "Extracting metadata and generating embeddings", now)]
        embedded_chunks == IF emb = "ok" THEN n ELSE done
        run1 == [run EXCEPT !.embeddings_stored = @ + embedded_chunks]
        elog1 == IF embedded_chunks = 0 THEN elog
                 ELSE elog \cup {<<r, file_id, "embedding">>}
    IN IF emb = "ok"
       THEN IF n > 0
            THEN [jobs |-> [js EXCEPT ![run.job_id].embedding_counters =
                               IncFields(@, [files_embedded |-> 1, embeddings_stored |-> n]),
                                      ![run.job_id].updated_at = now],
                  docs |-> [ds1 EXCEPT ![doc_id] =
                               SetDocStatus(SetDocEmbedded(@, n, PineconeIndexName, now),
                                            "ok", "Processed and embedded successfully", now)],
                  outputs |-> outs,
                  embedLog |-> elog1 \cup {<<r, file_id, "upsert">>},
                  run |-> [run1 EXCEPT !.files_embedded = @ + 1, !.i = @ + 1]]
            ELSE [jobs |-> js,
                  docs |-> [ds1 EXCEPT ![doc_id] =
                               SetDocStatus(@, "ok", "Processed and embedded successfully", now)],
                  outputs |-> outs,
                  embedLog |-> elog1,
                  run |-> [run1 EXCEPT !.i = @ + 1]]
       ELSE LET js2 == [js EXCEPT ![run.job_id].embedding_counters =
                           IncFields(@, [files_embedding_failed |-> 1]),
                                  ![run.job_id].updated_at = now]
                ds2 == [ds1 EXCEPT ![doc_id] =
                           SetDocStatus(@, "ok", "OCR completed but embedding failed", now)]
                run2 == [run1 EXCEPT !.files_embedding_failed = @ + 1]
            IN IF run.force
               THEN FileFailed(run2, js2, ds2, outs, elog1, doc_id, now)
               ELSE [jobs |-> js2, docs |-> ds2, outputs |-> outs, embedLog |-> elog1,
                     run |-> [run2 EXCEPT !.i = @ + 1]]

\* one iteration of the for loop over the listed files.  pre: the Drive calls before the
\* try block (ensure_folder_hierarchy, file_exists_in_folder) succeed or raise; dl:
\* download_file and process_document succeed or raise; ocr: the OCR result; up: the
\* upload of the JSON artifact succeeds or raises; emb, done: see EmbedFile
FileStep(run, r, js, ds, outs, elog, now, pre, dl, ocr, up, emb, done) ==
    LET file_id == run.files[run.i]
        key == <<run.dataset_name, file_id>>
        cd == CreateDoc(ds, run.job_id, run.dataset_name, file_id,
                        SourcePath(run.dataset_name, file_id), SourceUrl(file_id), now)
        doc_id == cd.id
        skip_embedding == (~run.force) /\ IsDocEmbedded(cd.docs, file_id, run.dataset_name)
        existing_json == (~run.force) /\ key \in outs
        ds1 == [cd.docs EXCEPT ![doc_id] = SetDocStatus(@, "processing", "Downloading file", now)]
    IN IF pre = "raise"
       THEN [jobs |-> js, docs |-> cd.docs, outputs |-> outs, embedLog |-> elog,
             run |-> [run EXCEPT !.pc = "raised"]]
       ELSE IF dl = "raise"
       THEN FileFailed(run, js, ds1, outs, elog, doc_id, now)
       ELSE IF ocr.chunks_emitted = 0
       THEN [jobs |-> [js EXCEPT ![run.job_id].counters =
                          IncFields(@, [files_failed |-> 1,
                                        pages_processed |-> ocr.total_page_count,
                                        pages_without_text |-> ocr.pages_without_text,
                                        lang_undetected_count |->
                                            IF ocr.lang_undetected THEN 1 ELSE 0]),
                                 ![run.job_id].updated_at = now],
             docs |-> [ds1 EXCEPT ![doc_id] =
                          SetDocCounts(SetDocStatus(@, "failed", "No extractable text found", now),
                                       [OcrCounts(ocr) EXCEPT !.chunks_emitted = 0], now)],
             outputs |-> outs,
             embedLog |-> elog,
             run |-> [run EXCEPT !.files_failed = @ + 1, !.i = @ + 1]]
       ELSE IF (~existing_json \/ run.force) /\ up = "raise"
       THEN FileFailed(run, js, ds1, outs, elog, doc_id, now)
       ELSE LET outs1 == IF ~existing_json \/ run.force THEN outs \cup {key} ELSE outs
                ds2 == IF ~existing_json \/ run.force
                       THEN [ds1 EXCEPT ![doc_id] = SetDocOutput(@, "json", "path", now)]
                       ELSE [ds1 EXCEPT ![doc_id] =
                                SetDocStatus(SetDocOutput(@, "json", "path", now),
                                             "skipped", "OCR JSON already exists", now)]
                ds3 == [ds2 EXCEPT ![doc_id] = SetDocCounts(@, OcrCounts(ocr), now)]
                js1 == [js EXCEPT ![run.job_id].counters =
                           IncFields(@, [files_processed |-> 1,
                                         pages_processed |-> ocr.total_page_count,
                                         pages_without_text |-> ocr.pages_without_text,
                                         chunks_emitted |-> ocr.chunks_emitted,
                                         lang_undetected_count |->
                                             IF ocr.lang_undetected THEN 1 ELSE 0]),
                                  ![run.job_id].updated_at = now]
                run1 == [run EXCEPT !.files_processed = @ + 1]
            IN IF ~skip_embedding
               THEN EmbedFile(run1, r, js1, ds3, outs1, elog, doc_id, file_id, ocr, now,
                              emb, done)
               ELSE [jobs |-> js1,
                     docs |-> [ds3 EXCEPT ![doc_id] =
                                  SetDocStatus(@, "ok",
                                      "OCR completed, embedding skipped (already embedded)", now)],
                     outputs |-> outs1,
                     embedLog |-> elog,
                     run |-> [run1 EXCEPT !.files_skipped = @ + 1, !.i = @ + 1]]

Outcomes == {"ok", "raise"}

\* an outcome is drawn only for the calls the iteration gets to: once a call raises (or
\* the document has no text) the later calls are not made, and their outcomes are held
\* at "ok"
CallsMade(pre, dl, ocr, up, emb, done) ==
    /\ pre = "raise" => dl = "ok"
    /\ (pre = "raise" \/ dl = "raise") => ocr.chunks_emitted = 0
    /\ (pre = "raise" \/ dl = "raise" \/ ocr.chunks_emitted = 0) => up = "ok"
    /\ (pre = "raise" \/ dl = "raise" \/ ocr.chunks_emitted = 0 \/ up = "raise") => emb = "ok"
    /\ emb = "ok" => done = 0

\* the body of the for loop for the next listed file
ProcessFile(r) ==
    /\ runs[r].pc = "loop"
    /\ runs[r].i <= Len(runs[r].files)
    /\ \E pre \in Outcomes, dl \in Outcomes, ocr \in OcrResults, up \in Outcomes,
          emb \in Outcomes :
       \E done \in 0..ocr.chunks_emitted :
          /\ CallsMade(pre, dl, ocr, up, emb, done)
          /\ LET s == FileStep(runs[r], r, jobs, docs, outputs, embedLog, clock,
                               pre, dl, ocr, up, emb, done)
             IN /\ jobs' = s.jobs
                /\ docs' = s.docs
                /\ outputs' = s.outputs
                /\ embedLog' = s.embedLog
                /\ runs' = [runs EXCEPT ![r] = s.run]
    /\ UNCHANGED <<svc, startupLog, uniqueJobs, uniqueDocs, clock, calls, hist, sent, raced>>
    /\ UNCHANGED <<chatVars, ocrCall>>

\* a final status that takes a run without a processed file for a failed one
JobStatusByProcessedOnly(files_failed, files_processed, files_embedded) ==
    IF files_failed = 0 /\ files_processed > 0 THEN "completed"
    ELSE IF files_processed > 0 THEN "completed_with_errors"
    ELSE "failed"
\* the final job status, from the run's tallies
JobStatus(files_failed, files_processed, files_embedded) ==
    IF files_failed = 0 THEN "completed"
    ELSE IF files_processed > 0 \/ files_embedded > 0 THEN "completed_with_errors"
    ELSE "failed"

\* after the loop: finish_job and the returned dictionary
FinishRun(r) ==
    /\ runs[r].pc = "loop"
    /\ runs[r].i > Len(runs[r].files)
    /\ jobs' = [jobs EXCEPT ![runs[r].job_id].status =
                   JobStatus(runs[r].files_failed, runs[r].files_processed,
                             runs[r].files_embedded),
                            ![runs[r].job_id].updated_at = clock]
    /\ runs' = [runs EXCEPT ![r].pc = "returned"]
    /\ UNCHANGED <<svc, startupLog, uniqueJobs, uniqueDocs, docs, clock, calls, hist, sent, raced>>
    /\ UNCHANGED <<outputs, embedLog>>
    /\ UNCHANGED <<chatVars, ocrCall>>

NextPipeline ==
    \/ \E r \in RunIds, d \in Datasets, force \in BOOLEAN, l \in ListingOutcomes :
          StartRun(r, d, force, l)
    \/ \E r \in RunIds : ProcessFile(r)
    \/ \E r \in RunIds : FinishRun(r)

InitPipeline ==
    /\ svc = "available"
    /\ startupLog = {}
    /\ uniqueJobs = TRUE
    /\ uniqueDocs = TRUE
    /\ jobs = <<>>
    /\ docs = <<>>
    /\ clock = 1
    /\ calls = [w \in Workers |-> Idle]
    /\ hist = {}
    /\ sent = <<>>
    /\ raced = FALSE
    /\ runs = [r \in RunIds |-> NoRun]
    /\ outputs = {}
    /\ embedLog = {}
    /\ ChatIdle

SpecPipeline == InitPipeline /\ [][NextPipeline]_vars

----------------------------------------------------------------------------
(* Startup over a database that already holds records *)

\* two job records for one dataset_name, written before the unique index existed
LegacyJobs == <<NewJob("A", "folder1", "folder1", 1), NewJob("A", "folder2", "folder2", 1)>>

\* two doc records for one (dataset_name, source_drive_file_id)
LegacyDocs ==
    <<NewDoc(1, "A", "f1", SourcePath("A", "f1"), SourceUrl("f1"), 1),
      NewDoc(2, "A", "f1", SourcePath("A", "f1"), SourceUrl("f1"), 1)>>

InitStartup ==
    /\ svc = "starting"
    /\ startupLog = {}
    /\ uniqueJobs = FALSE
    /\ uniqueDocs = FALSE
    /\ jobs \in {<<>>, LegacyJobs}
    /\ docs \in {<<>>, LegacyDocs}
    /\ clock = 2
    /\ calls = [w \in Workers |-> Idle]
    /\ hist = {}
    /\ sent = [i \in 1..Len(jobs) |-> ZeroSent]
    /\ raced = FALSE
    /\ runs = <<>>
    /\ outputs = {}
    /\ embedLog = {}
    /\ ChatIdle

NextStartup ==
    \/ Startup
    \/ \E w \in Workers, d \in Datasets, f \in Folders : CreateJobFind(w, d, f, f)
    \/ \E w \in Workers : CreateJobWrite(w)

SpecStartup == InitStartup /\ [][NextStartup]_vars

----------------------------------------------------------------------------
(* Retrieved chunks and the context builders (app/services/pinecone_service.py).

   A text is a sequence of characters, so that its length, its whitespace and the
   labels written into it are what the code makes them.  A retrieved chunk carries its
   id, its text and the metadata the builders read; a metadata string that is missing
   or empty is the empty sequence (the code tests it with "or"), a missing integer is
   <<>> and a present one <<v>>. *)

\* the most chunks in a list drawn from every kind of chunk
MaxChunks == 5
\* the most chunks in a list that repeats one chunk
MaxRepeat == 16

Whitespace == {" ", "\t", "\n"}
\* the one-character ellipsis U+2026, written here as an ASCII character
Ellipsis == "~"

\* str.strip()
RECURSIVE LStrip(_)
LStrip(t) == IF t # <<>> /\ Head(t) \in Whitespace THEN LStrip(Tail(t)) ELSE t
RECURSIVE RStrip(_)
RStrip(t) ==
    IF t # <<>> /\ t[Len(t)] \in Whitespace THEN RStrip(SubSeq(t, 1, Len(t) - 1)) ELSE t
Strip(t) == RStrip(LStrip(t))

\* str(index) inside an f-string: the decimal digits of a positive integer
DigitChars == <<"0", "1", "2", "3", "4", "5", "6", "7", "8", "9">>
RECURSIVE Digits(_)
Digits(n) ==
    IF n < 10 THEN <<DigitChars[n + 1]>> ELSE Digits(n \div 10) \o <<DigitChars[(n % 10) + 1]>>

\* sep.join(parts)
RECURSIVE Join(_, _)
Join(parts, sep) ==
    IF parts = <<>> THEN <<>>
    ELSE IF Len(parts) = 1 THEN parts[1]
    ELSE parts[1] \o sep \o Join(Tail(parts), sep)

\* the chunks retrieval can return: whitespace-only text, a short text, a text with
\* surrounding whitespace and no source file, a text longer than the snippet limit
Chunks ==
    {[id |-> "c0", text |-> <<" ", "\n">>, source_file |-> <<"x">>, document_id |-> "d1",
      page_index |-> <<1>>, chunk_index |-> <<0>>],
     [id |-> "c1", text |-> <<"a">>, source_file |-> <<"x">>, document_id |-> "d1",
      page_index |-> <<0>>, chunk_index |-> <<1>>],
     [id |-> "c2", text |-> <<" ", "a", "b", " ">>, source_file |-> <<>>,
      document_id |-> None, page_index |-> <<>>, chunk_index |-> <<0>>],
     [id |-> "c3", text |-> <<"a", "b", "c">>, source_file |-> <<"x">>, document_id |-> None,
      page_index |-> <<0>>, chunk_index |-> <<0>>]}

\* the lists of chunks the builders are given
RECURSIVE ListsUpTo(_)
ListsUpTo(n) ==
    IF n = 0 THEN {<<>>}
    ELSE LET shorter == ListsUpTo(n - 1)
         IN shorter \cup {Append(l, c) : l \in {m \in shorter : Len(m) = n - 1}, c \in Chunks}
ChunkLists ==
    ListsUpTo(MaxChunks) \cup {[i \in 1..n |-> c] : n \in 1..MaxRepeat, c \in Chunks}

UnknownFile == <<"u", "n", "k", "n", "o", "w", "n", "_", "f", "i", "l", "e">>

\* header = f"[CIT:{index}] {source_file or 'unknown_file'}"
Header(index, source_file) ==
    <<"[", "C", "I", "T", ":">> \o Digits(index) \o <<"]", " ">>
        \o (IF source_file = <<>> THEN UnknownFile ELSE source_file)

\* text[:max_snippet] + "…" when the text is longer than max_snippet
Snippet(text, max_snippet) ==
    IF Len(text) > max_snippet THEN SubSeq(text, 1, max_snippet) \o <<Ellipsis>> ELSE text

\* block = f"{header}\n{text}\n"
Block(index, chunk, max_snippet) ==
    Header(index, chunk.source_file) \o <<"\n">>
        \o Snippet(Strip(chunk.text), max_snippet) \o <<"\n">>

\* the entry of the citation map for an included chunk (the fields read back later)
Citation(index, chunk) ==
    [label |-> index, id |-> chunk.id, source_file |-> chunk.source_file,
     page_index |-> chunk.page_index, chunk_index |-> chunk.chunk_index]

FitsAlone(used_len, block, max_context) == ~(Len(block) > max_context)
\* the negation of the break condition "used_len + len(block) > max_context"
Fits(used_len, block, max_context) == ~(used_len + Len(block) > max_context)

\* the for loop of build_qna_context from the chunk at `index` on
RECURSIVE QnaLoop(_, _, _, _, _, _, _)
QnaLoop(chunks, index, lines, citation_map, used_len, max_context, max_snippet) ==
    IF index > Len(chunks)
    THEN [lines |-> lines, citation_map |-> citation_map]
    ELSE LET chunk == chunks[index]
             text == Strip(chunk.text)
             block == Block(index, chunk, max_snippet)
         IN IF text = <<>>
            THEN QnaLoop(chunks, index + 1, lines, citation_map, used_len,
                         max_context, max_snippet)
            ELSE IF ~Fits(used_len, block, max_context)
            THEN [lines |-> lines, citation_map |-> citation_map]
            ELSE QnaLoop(chunks, index + 1, Append(lines, block),
                         Append(citation_map, Citation(index, chunk)),
                         used_len + Len(block), max_context, max_snippet)

ContextTextBlank(lines) == Join(lines, <<"\n", "\n">>)
\* "\n".join(lines)
ContextText(lines) == Join(lines, <<"\n">>)

\* build_qna_context(chunks), reading the two limits from the settings
BuildQnaContext(chunks, max_context, max_snippet) ==
    IF chunks = <<>>
    THEN [context_text |-> <<>>, citation_map |-> <<>>]
    ELSE LET r == QnaLoop(chunks, 1, <<>>, <<>>, 0, max_context, max_snippet)
         IN [context_text |-> ContextText(r.lines), citation_map |-> r.citation_map]

RECURSIVE SummaryLoopSkipping(_, _, _, _, _, _)
SummaryLoopSkipping(chunks, index, segments, used_len, max_chars, max_snippet) ==
    IF index > Len(chunks)
    THEN segments
    ELSE LET text == Strip(chunks[index].text)
             snippet == Snippet(text, max_snippet)
         IN IF text = <<>> \/ used_len + Len(snippet) > max_chars
            THEN SummaryLoopSkipping(chunks, index + 1, segments, used_len, max_chars,
                                     max_snippet)
            ELSE SummaryLoopSkipping(chunks, index + 1, Append(segments, snippet),
                                     used_len + Len(snippet), max_chars, max_snippet)
\* the for loop of build_summary_context from the chunk at `index` on
RECURSIVE SummaryLoop(_, _, _, _, _, _)
SummaryLoop(chunks, index, segments, used_len, max_chars, max_snippet) ==
    IF index > Len(chunks)
    THEN segments
    ELSE LET text == Strip(chunks[index].text)
             snippet == Snippet(text, max_snippet)
         IN IF text = <<>>
            THEN SummaryLoop(chunks, index + 1, segments, used_len, max_chars, max_snippet)
            ELSE IF used_len + Len(snippet) > max_chars
            THEN segments
            ELSE SummaryLoop(chunks, index + 1, Append(segments, snippet),
                             used_len + Len(snippet), max_chars, max_snippet)

\* build_summary_context(chunks) with the limits of the settings
BuildSummaryContext(chunks, max_chars, max_snippet) ==
    IF chunks = <<>>
    THEN <<>>
    ELSE Join(SummaryLoop(chunks, 1, <<>>, 0, max_chars, max_snippet),
              <<"\n", "-", "-", "-", "\n">>)

\* the stripped texts of the chunks that have text
RECURSIVE NonEmptyTexts(_)
NonEmptyTexts(chunks) ==
    IF chunks = <<>> THEN <<>>
    ELSE LET text == Strip(Head(chunks).text)
         IN (IF text = <<>> THEN <<>> ELSE <<text>>) \o NonEmptyTexts(Tail(chunks))

\* assemble_document_context(chunks, max_chars=...); max_chars = 0 is "no limit"
AssembleDocumentContext(chunks, max_chars) ==
    LET combined == Join(NonEmptyTexts(chunks), <<"\n", "\n">>)
        cut == RStrip(SubSeq(combined, 1, max_chars))
    IN IF max_chars = 0 \/ Len(combined) <= max_chars
       THEN [text |-> combined, truncated |-> FALSE]
       ELSE [text |-> IF cut # <<>> /\ cut[Len(cut)] = Ellipsis
                      THEN cut ELSE Append(cut, Ellipsis),
             truncated |-> TRUE]

\* the default _document_sort_key gives a missing page_index or chunk_index
MissingIndex == 1000000

\* _safe_int(value, default)
SafeInt(value, default) == IF value = <<>> THEN default ELSE value[1]

\* _document_sort_key(chunk)
DocumentSortKey(chunk) ==
    <<SafeInt(chunk.page_index, MissingIndex), SafeInt(chunk.chunk_index, MissingIndex)>>

\* the order of Python tuples
KeyLess(a, b) == a[1] < b[1] \/ (a[1] = b[1] /\ a[2] < b[2])

\* sorted(chunks, key=_document_sort_key): a stable sort
RECURSIVE InsertByKey(_, _)
InsertByKey(sorted, chunk) ==
    IF sorted = <<>> THEN <<chunk>>
    ELSE IF KeyLess(DocumentSortKey(chunk), DocumentSortKey(Head(sorted)))
    THEN <<chunk>> \o sorted
    ELSE <<Head(sorted)>> \o InsertByKey(Tail(sorted), chunk)
RECURSIVE SortedByDocumentKey(_)
SortedByDocumentKey(chunks) ==
    IF chunks = <<>> THEN <<>>
    ELSE InsertByKey(SortedByDocumentKey(SubSeq(chunks, 1, Len(chunks) - 1)),
                     chunks[Len(chunks)])

\* a text as a Python string
RECURSIVE Str(_)
Str(t) == IF t = <<>> THEN "" ELSE Head(t) \o Str(Tail(t))

\* one call of build_qna_context on a list of retrieved chunks
BuildQnaContextCall ==
    /\ ctx.pc = "called"
    /\ LET r == BuildQnaContext(ctx.chunks, settings.RAG_MAX_CONTEXT_CHARS,
                                settings.RAG_MAX_SNIPPET_CHARS)
       IN ctx' = [pc |-> "returned", chunks |-> ctx.chunks,
                  context_text |-> r.context_text, citation_map |-> r.citation_map]
    /\ UNCHANGED <<svc, startupLog, uniqueJobs, uniqueDocs, jobs, docs, clock, calls, hist,
                   sent, raced>>
    /\ UNCHANGED <<pipeVars, settings, chat, ocrCall>>

\* the values RAG_MAX_CONTEXT_CHARS takes in the model
ContextLimits == {30, 60, 186}
\* the values SUMMARY_FULL_DOCUMENT_MODE takes: os.getenv gives None or the string set
FullDocumentModes == {None, "", "true", "false"}
\* the values SUMMARY_MAX_CONTEXT_CHARS takes in the model
SummaryLimits == {4, 60}

\* the ledger and the pipeline at rest
LedgerAtRest ==
    /\ svc = "available"
    /\ startupLog = {}
    /\ uniqueJobs = TRUE
    /\ uniqueDocs = TRUE
    /\ jobs = <<>>
    /\ docs = <<>>
    /\ clock = 1
    /\ calls = [w \in Workers |-> Idle]
    /\ hist = {}
    /\ sent = <<>>
    /\ raced = FALSE
    /\ runs = <<>>
    /\ outputs = {}
    /\ embedLog = {}

NextContext == BuildQnaContextCall

InitContext ==
    /\ LedgerAtRest
    /\ settings \in [loaded : {TRUE}, RAG_MAX_CONTEXT_CHARS : ContextLimits,
                     RAG_MAX_SNIPPET_CHARS : {2}, SUMMARY_FULL_DOCUMENT_MODE : {None},
                     SUMMARY_MAX_CONTEXT_CHARS : {60}]
    /\ chat = NoChat
    /\ ocrCall = NoOcr
    /\ ctx \in [pc : {"called"}, chunks : ChunkLists]

SpecContext == InitContext /\ [][NextContext]_vars

----------------------------------------------------------------------------
(* The chat workflow (app/routers/chat.py, app/langgraph/chat_flow.py,
   app/langgraph/chat_nodes.py).

   A request builds the initial state and runs the compiled graph: the entry node
   decide_next_step, then the agent the conditional edge selects, then END; the
   endpoint turns the final state into a ChatResponse.  Each agent is two steps, its
   retrieval and its generation, because it awaits in between.  The state holds the
   keys of ChatState the nodes write (the messages list is left out); a key that is
   not set is None, context_chunks is <<>> until set.  A model call or a retrieval
   call returns or raises, as drawn from the outcomes below. *)

Marker == "Context unavailable or insufficient."

\* Python truthiness of an optional string
Truthy(v) == v \notin {None, ""}

\* a or b
Or(a, b) == IF Truthy(a) THEN a ELSE b

\* str.lower() on the letters the router's labels and the file extensions are made of
LowerCase(c) ==
    CASE c = "Q" -> "q" [] c = "N" -> "n" [] c = "A" -> "a" [] c = "S" -> "s"
      [] c = "P" -> "p" [] c = "D" -> "d" [] c = "F" -> "f" [] OTHER -> c
Lower(t) == [i \in 1..Len(t) |-> LowerCase(t[i])]

\* what the routing model can answer: the two labels, with and without surrounding
\* whitespace and capitals, another word, and nothing
RouterContents ==
    {<<"q", "n", "a">>, <<" ", "Q", "N", "A", "\n">>,
     <<"s", "u", "m", "m", "a", "r", "i", "z", "e">>,
     <<"S", "u", "m", "m", "a", "r", "i", "z", "e", " ">>,
     <<"n", "o">>, <<>>}
NoOutcome == [raised |-> FALSE, content |-> <<>>]
ModelRaised == [raised |-> TRUE, content |-> <<>>]
RouterOutcomes == {ModelRaised} \cup {[raised |-> FALSE, content |-> c] : c \in RouterContents}

\* what a generation model can answer: nothing, whitespace, a text
GenerationOutcomes ==
    {ModelRaised} \cup {[raised |-> FALSE, content |-> c] : c \in {<<>>, <<" ">>, <<"o", "k", "\n">>}}

\* the messages of the PineconeServiceError query_context raises
PineconeMessages ==
    {"Unable to generate embedding for query text.",
     "Pinecone query failed. See logs for details."}

\* a retrieval call returns a list of chunks, raises PineconeServiceError, or raises
\* another exception
RetrievalOutcomes(lists) ==
    {[kind |-> "chunks", chunks |-> l, message |-> ""] : l \in lists}
        \cup {[kind |-> "PineconeServiceError", chunks |-> <<>>, message |-> m] :
                 m \in PineconeMessages}
        \cup {[kind |-> "Exception", chunks |-> <<>>, message |-> "timeout"]}
NotCalled == [kind |-> "chunks", chunks |-> <<>>, message |-> ""]

\* the lists a top-K query, a top-1 query and a full-document fetch return in the model
TopKLists ==
    {l \in ListsUpTo(2) : Len(l) = 0 \/ l[1].id \in {"c0", "c1"} \/ (Len(l) = 2 /\ l[1].id = "c3")}
Top1Lists == {l \in ListsUpTo(1) : TRUE}
FullLists ==
    {l \in ListsUpTo(2) : Len(l) # 1 \/ l[1].id = "c0"}

\* the initial state chat_endpoint builds
NewChatState(dataset_name) ==
    [next_step |-> None, answer |-> None, summary |-> None, error |-> None,
     dataset_name |-> dataset_name, context_chunks |-> <<>>]

\* the graph writes the keys a node returns into the state
Merge(state, update) ==
    [k \in DOMAIN state |-> IF k \in DOMAIN update THEN update[k] ELSE state[k]]

RouteNextStepToQna(state) == "qna"
\* _route_next_step(state)
RouteNextStep(state) ==
    LET next_step == IF state.next_step = None THEN "qna" ELSE state.next_step
    IN IF next_step \notin {"qna", "summarize"} THEN "qna" ELSE next_step

\* the edges build_chat_graph adds: the conditional edges of decide_next_step, and the
\* edge of each agent to END
Successor(node, state) ==
    IF node = "decide_next_step"
    THEN [qna |-> "question_answering_agent",
          summarize |-> "summary_generation_agent"][RouteNextStep(state)]
    ELSE "END"

\* chat_endpoint up to the invocation of the graph: an empty message is refused with
\* HTTP 422, otherwise the graph starts at its entry point
ChatEndpoint(message, dataset_name) ==
    /\ chat.pc = "idle"
    /\ chat' = IF message = ""
               THEN [pc |-> "http_422"]
               ELSE [pc |-> "decide_next_step",
                     state |-> NewChatState(IF Truthy(dataset_name) THEN dataset_name ELSE None),
                     trace |-> <<>>,
                     router |-> NoOutcome,
                     decided_error |-> None,
                     retrieval |-> <<>>,
                     local |-> [error_message |-> None, context_text |-> "",
                                context_chunks |-> 0, citation_map |-> <<>>],
                     generation |-> [invoked |-> FALSE, raised |-> FALSE, context |-> ""]]
    /\ UNCHANGED <<svc, startupLog, uniqueJobs, uniqueDocs, jobs, docs, clock, calls, hist,
                   sent, raced>>
    /\ UNCHANGED <<pipeVars, settings, ctx, ocrCall>>

DecideWithoutAdvisory(out) ==
    [next_step |-> "qna"]
\* the dictionary decide_next_step returns for an outcome of the routing model
Decide(out) ==
    LET decision == Str(Lower(Strip(out.content)))
    IN IF out.raised
       THEN [next_step |-> "qna",
             error |-> "Unable to determine next step. Defaulting to question answering."]
       ELSE [next_step |-> IF decision \notin {"qna", "summarize"} THEN "qna" ELSE decision]

\* the node decide_next_step
DecideNextStep(out) ==
    /\ chat.pc = "decide_next_step"
    /\ LET update == Decide(out)
           state == Merge(chat.state, update)
       IN chat' = [chat EXCEPT !.state = state,
                               !.trace = Append(@, "decide_next_step"),
                               !.router = out,
                               !.decided_error =
                                   IF "error" \in DOMAIN update THEN update.error ELSE None,
                               !.pc = Successor("decide_next_step", state)]
    /\ UNCHANGED <<svc, startupLog, uniqueJobs, uniqueDocs, jobs, docs, clock, calls, hist,
                   sent, raced>>
    /\ UNCHANGED <<pipeVars, settings, ctx, ocrCall>>

\* the error_message an except block of the retrieval try sets
RetrievalError(out) ==
    IF out.kind = "PineconeServiceError" THEN out.message
    ELSE "Context retrieval failed. Proceeding without context."

\* question_answering_agent up to the prompt: retrieval and build_qna_context
QnaRetrieve(out) ==
    /\ chat.pc = "question_answering_agent"
    /\ LET error_message == IF out.kind = "chunks" THEN None ELSE RetrievalError(out)
           retrieved_chunks == IF out.kind = "chunks" THEN out.chunks ELSE <<>>
           built == BuildQnaContext(retrieved_chunks, settings.RAG_MAX_CONTEXT_CHARS,
                                    settings.RAG_MAX_SNIPPET_CHARS)
           context_text == Str(built.context_text)
       IN chat' = [chat EXCEPT
                      !.pc = "question_answering_agent:generate",
                      !.trace = Append(@, "question_answering_agent"),
                      !.retrieval = <<[call |-> "query_context", top_k |-> "RAG_TOP_K",
                                       outcome |-> out.kind,
                                       returned |-> Len(retrieved_chunks)]>>,
                      !.local = [error_message |-> error_message,
                                 context_text |-> IF context_text = "" THEN Marker
                                                  ELSE context_text,
                                 context_chunks |-> Len(retrieved_chunks),
                                 citation_map |-> built.citation_map]]
    /\ UNCHANGED <<svc, startupLog, uniqueJobs, uniqueDocs, jobs, docs, clock, calls, hist,
                   sent, raced>>
    /\ UNCHANGED <<pipeVars, settings, ctx, ocrCall>>

\* a reply that passes an empty model text on
ReplyWithoutFallback(gen, fallback, apology) ==
    IF gen.raised THEN apology ELSE Str(Strip(gen.content))

\* the answer an agent makes of the generation outcome: the stripped model text, the
\* fallback for an empty text, or the apology when the call raised
Reply(gen, fallback, apology) ==
    LET text == Str(Strip(gen.content))
    IN IF gen.raised THEN apology
       ELSE IF text = "" THEN fallback ELSE text

GenerationErrorDropped(gen, error_message, failure) == error_message
\* the error_message after the generation try
GenerationError(gen, error_message, failure) ==
    IF gen.raised THEN Or(error_message, failure) ELSE error_message

\* the dictionary an agent returns: its text, the chunk count, and the error if any
AgentResult(key, text, context_chunks, error_message) ==
    LET result == [k \in {key, "context_chunks"} |->
                      IF k = key THEN text ELSE <<context_chunks>>]
    IN IF Truthy(error_message)
       THEN [k \in DOMAIN result \cup {"error"} |->
                IF k = "error" THEN error_message ELSE result[k]]
       ELSE result

\* question_answering_agent from the generation on
QnaGenerate(gen) ==
    /\ chat.pc = "question_answering_agent:generate"
    /\ LET answer == Reply(gen, "I'm not sure based on the available information.",
                           "I'm sorry, I couldn't generate an answer right now.")
           error_message == GenerationError(gen, chat.local.error_message,
                                            "Answer generation failed.")
           state == Merge(chat.state,
                          AgentResult("answer", answer, chat.local.context_chunks,
                                      error_message))
       IN chat' = [chat EXCEPT
                      !.state = state,
                      !.generation = [invoked |-> TRUE, raised |-> gen.raised,
                                      context |-> chat.local.context_text],
                      !.pc = Successor("question_answering_agent", state)]
    /\ UNCHANGED <<svc, startupLog, uniqueJobs, uniqueDocs, jobs, docs, clock, calls, hist,
                   sent, raced>>
    /\ UNCHANGED <<pipeVars, settings, ctx, ocrCall>>

\* fetch_full_document_chunks: without a document_id and a source_file it returns []
\* without a query; an exception of the query is caught and [] is returned
FetchFullDocumentChunks(best_chunk, out) ==
    IF ~Truthy(best_chunk.document_id) /\ best_chunk.source_file = <<>> THEN <<>>
    ELSE IF out.kind = "chunks" THEN out.chunks
    ELSE <<>>

\* the retrieval try of summary_generation_agent and the lines up to the prompt.
\* top1, full, topk: the outcomes of the top-1 query, of the query inside
\* fetch_full_document_chunks, and of the top-K query.  calls_made is the history of
\* the retrieval calls and context builders the node went through
SummaryContext(top1, full, topk) ==
    LET mode == Truthy(settings.SUMMARY_FULL_DOCUMENT_MODE)
        top1_raised == mode /\ top1.kind # "chunks"
        initial_chunks == IF mode /\ top1.kind = "chunks" THEN top1.chunks ELSE <<>>
        fetched == initial_chunks # <<>>
        full_chunks == IF fetched THEN FetchFullDocumentChunks(initial_chunks[1], full)
                       ELSE <<>>
        context_chunks == SortedByDocumentKey(full_chunks)
        assembled == AssembleDocumentContext(context_chunks,
                                             settings.SUMMARY_MAX_CONTEXT_CHARS)
        full_text == IF full_chunks # <<>> THEN Str(assembled.text) ELSE ""
        full_count == Len(context_chunks)
        topk_called == ~top1_raised /\ full_text = "" /\ ~mode
        topk_raised == topk_called /\ topk.kind # "chunks"
        calls_made ==
            (IF mode THEN <<[call |-> "query_context", top_k |-> "1", outcome |-> top1.kind,
                             returned |-> Len(initial_chunks)]>>
             ELSE <<>>)
            \o (IF fetched
                THEN <<[call |-> "fetch_full_document_chunks", top_k |-> "SUMMARY_DOC_MAX_CHUNKS",
                        outcome |-> full.kind, returned |-> Len(full_chunks)]>>
                ELSE <<>>)
            \o (IF topk_called
                THEN <<[call |-> "query_context", top_k |-> "RAG_TOP_K", outcome |-> topk.kind,
                        returned |-> Len(topk.chunks)]>>
                     \o (IF topk.kind = "chunks"
                         THEN <<[call |-> "build_summary_context", top_k |-> "RAG_TOP_K",
                                 outcome |-> "chunks", returned |-> Len(topk.chunks)]>>
                         ELSE <<>>)
                ELSE <<>>)
        text == IF top1_raised \/ topk_raised THEN Marker
                ELSE IF full_text # "" THEN full_text
                ELSE IF ~mode
                THEN Str(BuildSummaryContext(topk.chunks, settings.RAG_MAX_CONTEXT_CHARS,
                                             settings.RAG_MAX_SNIPPET_CHARS))
                ELSE Marker
    IN [error_message |-> IF top1_raised THEN RetrievalError(top1)
                          ELSE IF topk_raised THEN RetrievalError(topk)
                          ELSE None,
        context_text |-> IF text = "" THEN Marker ELSE text,
        context_chunks |-> IF top1_raised \/ topk_raised THEN 0
                           ELSE IF full_text # "" THEN full_count
                           ELSE IF ~mode THEN Len(topk.chunks)
                           ELSE 0,
        citation_map |-> <<>>,
        calls_made |-> calls_made]

\* an outcome is drawn only for the calls the node makes: the top-1 query is made in
\* full-document mode, the fetch queries when the top-1 chunk names its document, the
\* top-K query is made when the mode is off
SummaryCallsMade(top1, full, topk) ==
    LET mode == Truthy(settings.SUMMARY_FULL_DOCUMENT_MODE)
    IN /\ ~mode => top1 = NotCalled
       /\ (~mode \/ top1.chunks = <<>>) => full = NotCalled
       /\ (top1.chunks # <<>>
              /\ ~Truthy(top1.chunks[1].document_id) /\ top1.chunks[1].source_file = <<>>)
          => full = NotCalled
       /\ mode => topk = NotCalled

\* summary_generation_agent up to the prompt
SummaryRetrieve(top1, full, topk) ==
    /\ chat.pc = "summary_generation_agent"
    /\ SummaryCallsMade(top1, full, topk)
    /\ LET c == SummaryContext(top1, full, topk)
       IN chat' = [chat EXCEPT
                      !.pc = "summary_generation_agent:generate",
                      !.trace = Append(@, "summary_generation_agent"),
                      !.retrieval = c.calls_made,
                      !.local = [error_message |-> c.error_message,
                                 context_text |-> c.context_text,
                                 context_chunks |-> c.context_chunks,
                                 citation_map |-> <<>>]]
    /\ UNCHANGED <<svc, startupLog, uniqueJobs, uniqueDocs, jobs, docs, clock, calls, hist,
                   sent, raced>>
    /\ UNCHANGED <<pipeVars, settings, ctx, ocrCall>>

\* summary_generation_agent from the generation on
SummaryGenerate(gen) ==
    /\ chat.pc = "summary_generation_agent:generate"
    /\ LET summary == Reply(gen, "I was unable to create a summary with the available information.",
                            "I'm sorry, I couldn't generate a summary right now.")
           error_message == GenerationError(gen, chat.local.error_message,
                                            "Summary generation failed.")
           state == Merge(chat.state,
                          AgentResult("summary", summary, chat.local.context_chunks,
                                      error_message))
       IN chat' = [chat EXCEPT
                      !.state = state,
                      !.generation = [invoked |-> TRUE, raised |-> gen.raised,
                                      context |-> chat.local.context_text],
                      !.pc = Successor("summary_generation_agent", state)]
    /\ UNCHANGED <<svc, startupLog, uniqueJobs, uniqueDocs, jobs, docs, clock, calls, hist,
                   sent, raced>>
    /\ UNCHANGED <<pipeVars, settings, ctx, ocrCall>>

\* the ChatResponse chat_endpoint builds from the final state
ChatResponse(result) ==
    LET context_chunks == IF result.context_chunks = <<>> THEN 0 ELSE result.context_chunks[1]
        error == IF Truthy(result.error) THEN result.error ELSE None
    IN IF Truthy(result.answer)
       THEN [type |-> "qna", answer |-> result.answer, summary |-> None, error |-> error,
             context_chunks |-> <<context_chunks>>]
       ELSE IF Truthy(result.summary)
       THEN [type |-> "summary", answer |-> None, summary |-> result.summary, error |-> error,
             context_chunks |-> <<context_chunks>>]
       ELSE IF Truthy(result.error)
       THEN [type |-> "error", answer |-> None, summary |-> None, error |-> result.error,
             context_chunks |-> <<>>]
       ELSE [type |-> "unknown", answer |-> None, summary |-> None, error |-> None,
             context_chunks |-> <<>>]

\* chat_endpoint after the graph has ended
Respond ==
    /\ chat.pc = "END"
    /\ chat' = [pc |-> "responded", state |-> chat.state, trace |-> chat.trace,
                router |-> chat.router, decided_error |-> chat.decided_error,
                retrieval |-> chat.retrieval, local |-> chat.local,
                generation |-> chat.generation, response |-> ChatResponse(chat.state)]
    /\ UNCHANGED <<svc, startupLog, uniqueJobs, uniqueDocs, jobs, docs, clock, calls, hist,
                   sent, raced>>
    /\ UNCHANGED <<pipeVars, settings, ctx, ocrCall>>

NextChat ==
    \/ \E message \in {"", "question"}, dataset_name \in {None, "", "A"} :
          ChatEndpoint(message, dataset_name)
    \/ \E out \in RouterOutcomes : DecideNextStep(out)
    \/ \E out \in RetrievalOutcomes(TopKLists) : QnaRetrieve(out)
    \/ \E gen \in GenerationOutcomes : QnaGenerate(gen)
    \/ \E top1 \in RetrievalOutcomes(Top1Lists), full \in RetrievalOutcomes(FullLists),
          topk \in RetrievalOutcomes(TopKLists) : SummaryRetrieve(top1, full, topk)
    \/ \E gen \in GenerationOutcomes : SummaryGenerate(gen)
    \/ Respond

InitChat ==
    /\ LedgerAtRest
    /\ settings \in [loaded : {TRUE}, RAG_MAX_CONTEXT_CHARS : {30},
                     RAG_MAX_SNIPPET_CHARS : {2},
                     SUMMARY_FULL_DOCUMENT_MODE : FullDocumentModes,
                     SUMMARY_MAX_CONTEXT_CHARS : SummaryLimits]
    /\ chat = NoChat
    /\ ocrCall = NoOcr
    /\ ctx = NoCtx

SpecChat == InitChat /\ [][NextChat]_vars

----------------------------------------------------------------------------
(* Reconstruction of a whole document for summarisation                    *)
(* (fetch_full_document_chunks, _document_sort_key, assemble_document_     *)
(* context and build_summary_context), each applied to bounded inputs      *)

\* a chunk with a page_index and no chunk_index, whose text ends with the ellipsis
PageOnlyChunk ==
    [id |-> "c4", text |-> <<"a", Ellipsis>>, source_file |-> <<"x">>, document_id |-> "d1",
     page_index |-> <<0>>, chunk_index |-> <<>>]
\* the chunks a document fetch can return
DocumentChunks == Chunks \cup {PageOnlyChunk}

MaxDocumentChunks == 3
RECURSIVE DocumentListsUpTo(_)
DocumentListsUpTo(n) ==
    IF n = 0 THEN {<<>>}
    ELSE LET shorter == DocumentListsUpTo(n - 1)
         IN shorter \cup {Append(l, c) : l \in {m \in shorter : Len(m) = n - 1},
                                          c \in DocumentChunks}
DocumentLists == DocumentListsUpTo(MaxDocumentChunks)

\* the values max_chars takes: 0 is "no limit" (not max_chars)
DocumentLimits == {0, 2, 4, 5, 60}

\* one call of assemble_document_context(chunks, max_chars=max_chars)
AssembleDocumentContextCall ==
    /\ ctx.pc = "called"
    /\ LET r == AssembleDocumentContext(ctx.chunks, ctx.max_chars)
       IN ctx' = [pc |-> "returned", fn |-> "assemble_document_context",
                  chunks |-> ctx.chunks, max_chars |-> ctx.max_chars,
                  text |-> r.text, truncated |-> r.truncated]
    /\ UNCHANGED <<svc, startupLog, uniqueJobs, uniqueDocs, jobs, docs, clock, calls, hist,
                   sent, raced>>
    /\ UNCHANGED <<pipeVars, settings, chat, ocrCall>>

\* one call of build_summary_context(chunks, max_chars=max_chars); a max_chars or a
\* max_snippet of 0 or None is replaced by the setting
BuildSummaryContextCall ==
    /\ ctx.pc = "called"
    /\ LET max_chars == IF ctx.max_chars = 0 THEN settings.RAG_MAX_CONTEXT_CHARS
                        ELSE ctx.max_chars
       IN ctx' = [pc |-> "returned", fn |-> "build_summary_context",
                  chunks |-> ctx.chunks, max_chars |-> max_chars,
                  max_snippet |-> settings.RAG_MAX_SNIPPET_CHARS,
                  text |-> BuildSummaryContext(ctx.chunks, max_chars,
                                               settings.RAG_MAX_SNIPPET_CHARS)]
    /\ UNCHANGED <<svc, startupLog, uniqueJobs, uniqueDocs, jobs, docs, clock, calls, hist,
                   sent, raced>>
    /\ UNCHANGED <<pipeVars, settings, chat, ocrCall>>

\* sorted(full_chunks, key=_document_sort_key)
SortChunksCall ==
    /\ ctx.pc = "called"
    /\ ctx' = [pc |-> "returned", fn |-> "sorted", chunks |-> ctx.chunks,
               sorted |-> SortedByDocumentKey(ctx.chunks)]
    /\ UNCHANGED <<svc, startupLog, uniqueJobs, uniqueDocs, jobs, docs, clock, calls, hist,
                   sent, raced>>
    /\ UNCHANGED <<pipeVars, settings, chat, ocrCall>>

\* the vectors of the Pinecone index: every kind of chunk, upserted under each dataset
StoredChunks == {[chunk |-> c, dataset_name |-> d] : c \in DocumentChunks, d \in Datasets}

\* the value a metadata filter compares: a field of the stored vector's metadata
MetadataField(stored, key) ==
    IF key = "dataset_name" THEN stored.dataset_name ELSE stored.chunk[key]

\* index.query(filter=..., top_k=...): the vectors whose metadata equals the filter on
\* every key ($eq), top_k of them at most, in the order the index ranks them
QueryMatches(filter_payload, top_k) ==
    LET matching == {v \in StoredChunks :
                        \A key \in DOMAIN filter_payload :
                            MetadataField(v, key) = filter_payload[key]}
        n == IF Cardinality(matching) < top_k THEN Cardinality(matching) ELSE top_k
    IN {m \in [1..n -> matching] : \A i, j \in 1..n : m[i] = m[j] => i = j}

FilterPayloadBySourceFile(document_id, source_file, dataset_name) ==
    (IF source_file # <<>> THEN "source_file" :> source_file
     ELSE "document_id" :> document_id)
    @@ (IF Truthy(dataset_name) THEN "dataset_name" :> dataset_name
        ELSE [key \in {} |-> None])
\* filter_payload of fetch_full_document_chunks (one of the two identifiers is set)
FilterPayload(document_id, source_file, dataset_name) ==
    (IF Truthy(document_id) THEN "document_id" :> document_id
     ELSE "source_file" :> source_file)
    @@ (IF Truthy(dataset_name) THEN "dataset_name" :> dataset_name
        ELSE [key \in {} |-> None])

\* one call of fetch_full_document_chunks for the first chunk of the top-1 retrieval:
\* no query without identifiers; an exception of the query is logged and [] returned
FetchFullDocumentChunksCall ==
    /\ ctx.pc = "called"
    /\ ctx.chunks # <<>>
    /\ LET best_chunk == ctx.chunks[1]
           document_id == best_chunk.document_id
           source_file == best_chunk.source_file
           filter_payload == FilterPayload(document_id, source_file, ctx.dataset_name)
           query == [filter |-> filter_payload, top_k |-> settings.SUMMARY_DOC_MAX_CHUNKS]
           done(queries, raised, returned) ==
               ctx' = [pc |-> "returned", fn |-> "fetch_full_document_chunks",
                       chunks |-> ctx.chunks, dataset_name |-> ctx.dataset_name,
                       queries |-> queries, raised |-> raised, returned |-> returned]
       IN IF ~Truthy(document_id) /\ source_file = <<>>
          THEN done(<<>>, FALSE, <<>>)
          ELSE \/ done(<<query>>, TRUE, <<>>)
               \/ \E matches \in QueryMatches(filter_payload, query.top_k) :
                      done(<<query>>, FALSE, matches)
    /\ UNCHANGED <<svc, startupLog, uniqueJobs, uniqueDocs, jobs, docs, clock, calls, hist,
                   sent, raced>>
    /\ UNCHANGED <<pipeVars, settings, chat, ocrCall>>

NextDocument ==
    \/ AssembleDocumentContextCall
    \/ BuildSummaryContextCall
    \/ SortChunksCall
    \/ FetchFullDocumentChunksCall

InitDocument ==
    /\ LedgerAtRest
    /\ settings \in [loaded : {TRUE}, RAG_MAX_CONTEXT_CHARS : {60},
                     RAG_MAX_SNIPPET_CHARS : {2}, SUMMARY_FULL_DOCUMENT_MODE : {"true"},
                     SUMMARY_MAX_CONTEXT_CHARS : {60}, SUMMARY_DOC_MAX_CHUNKS : {2}]
    /\ chat = NoChat
    /\ ocrCall = NoOcr
    /\ ctx \in [pc : {"called"}, chunks : DocumentLists, max_chars : DocumentLimits,
                dataset_name : {None, "", "A"}]

SpecDocument == InitDocument /\ [][NextDocument]_vars

----------------------------------------------------------------------------
(* The OCR service (app/services/ocr_service.py): normalisation, extraction,  *)
(* language detection and chunking, each applied to bounded inputs            *)

\* the characters of the texts: a letter, a space, a tab and a line break
Alphabet == {"a", " ", "\t", "\n"}
Blanks == {" ", "\t"}

MaxTextLen == 6
\* the texts normalize_text is given
RECURSIVE TextsUpTo(_)
TextsUpTo(n) ==
    IF n = 0 THEN {<<>>}
    ELSE LET shorter == TextsUpTo(n - 1)
         IN shorter \cup {Append(t, c) : t \in {u \in shorter : Len(u) = n - 1},
                                          c \in Alphabet}
Texts == TextsUpTo(MaxTextLen)

\* the text after its leading run of characters of `set`
RECURSIVE DropLeading(_, _)
DropLeading(t, set) ==
    IF t # <<>> /\ Head(t) \in set THEN DropLeading(Tail(t), set) ELSE t

\* regex.sub(r'[ \t]+', ' ', text)
RECURSIVE CollapseBlanks(_)
CollapseBlanks(t) ==
    IF t = <<>> THEN <<>>
    ELSE IF Head(t) \in Blanks THEN <<" ">> \o CollapseBlanks(DropLeading(t, Blanks))
    ELSE <<Head(t)>> \o CollapseBlanks(Tail(t))

\* regex.sub(r'\n[ \t]+', '\n', text)
RECURSIVE DropBlanksAfterNewline(_)
DropBlanksAfterNewline(t) ==
    IF t = <<>> THEN <<>>
    ELSE IF Head(t) = "\n"
    THEN <<"\n">> \o DropBlanksAfterNewline(DropLeading(Tail(t), Blanks))
    ELSE <<Head(t)>> \o DropBlanksAfterNewline(Tail(t))

\* regex.sub(r'[ \t]+\n', '\n', text)
RECURSIVE DropBlanksBeforeNewline(_)
DropBlanksBeforeNewline(t) ==
    IF t = <<>> THEN <<>>
    ELSE IF Head(t) \in Blanks
    THEN LET rest == DropLeading(t, Blanks)
         IN IF rest # <<>> /\ Head(rest) = "\n"
            THEN DropBlanksBeforeNewline(rest)
            ELSE SubSeq(t, 1, Len(t) - Len(rest)) \o DropBlanksBeforeNewline(rest)
    ELSE <<Head(t)>> \o DropBlanksBeforeNewline(Tail(t))

\* regex.sub(r'\n{3,}', '\n\n', text)
RECURSIVE CollapseNewlines(_)
CollapseNewlines(t) ==
    IF t = <<>> THEN <<>>
    ELSE IF Head(t) = "\n"
    THEN LET rest == DropLeading(t, {"\n"})
             run == Len(t) - Len(rest)
         IN (IF run >= 3 THEN <<"\n", "\n">> ELSE SubSeq(t, 1, run))
                \o CollapseNewlines(rest)
    ELSE <<Head(t)>> \o CollapseNewlines(Tail(t))

NormalizeTextNewlinesFirst(text) ==
    Strip(DropBlanksBeforeNewline(DropBlanksAfterNewline(CollapseNewlines(
        CollapseBlanks(text)))))
\* normalize_text(text); NFC normalisation leaves the characters of the alphabet alone
NormalizeText(text) ==
    Strip(CollapseNewlines(DropBlanksBeforeNewline(DropBlanksAfterNewline(
        CollapseBlanks(text)))))

\* a call of normalize_text, and a second call on what the first returned
NormalizeTextCall ==
    /\ ocrCall.fn = "normalize_text"
    /\ ocrCall.pc \in {"called", "returned"}
    /\ ocrCall' = IF ocrCall.pc = "called"
              THEN [ocrCall EXCEPT !.pc = "returned", !.once = NormalizeText(ocrCall.text)]
              ELSE [ocrCall EXCEPT !.pc = "returned again", !.twice = NormalizeText(ocrCall.once)]
    /\ UNCHANGED <<svc, startupLog, uniqueJobs, uniqueDocs, jobs, docs, clock, calls, hist,
                   sent, raced>>
    /\ UNCHANGED <<pipeVars, chatVars>>

\* the file names and MIME types a listing gives process_document
FileNames ==
    {<<"a", ".", "p", "d", "f">>, <<"a", ".", "P", "D", "F">>, <<"a", ".", "d", "o", "c", "x">>,
     <<"a", ".", "d", "o", "c">>, <<"a", ".", "t", "x", "t">>, <<"a", ".", "p", "n", "g">>,
     <<"a">>, <<".", "p", "d", "f">>}
MimeTypes ==
    {None, "application/pdf", "application/msword",
     "application/vnd.openxmlformats-officedocument.wordprocessingml.document",
     "text/plain", "image/png"}

\* os.path.splitext(file_name)[1]: from the last dot on, unless only dots precede it
SplitExt(file_name) ==
    LET dots == {i \in 1..Len(file_name) : file_name[i] = "."}
        last == CHOOSE i \in dots : \A j \in dots : j <= i
    IN IF dots = {} \/ \A j \in 1..(last - 1) : file_name[j] = "."
       THEN <<>>
       ELSE SubSeq(file_name, last, Len(file_name))

\* the if/elif chain of extract_text: the extractor it calls, or none (ValueError)
SelectExtractor(file_name, mime_type) ==
    LET ext == Str(Lower(SplitExt(file_name)))
    IN IF ext = ".pdf" \/ mime_type = "application/pdf" THEN "pdf"
       ELSE IF \/ ext \in {".doc", ".docx"}
               \/ mime_type \in {"application/msword",
                                 "application/vnd.openxmlformats-officedocument.wordprocessingml.document"}
       THEN "docx"
       ELSE IF ext = ".txt" \/ mime_type = "text/plain" THEN "txt"
       ELSE "unsupported"

\* the raw texts of the parts of a file: the pages of a PDF, the paragraphs of a DOCX,
\* the lines of a TXT
PartTexts == {<<>>, <<" ", "\n">>, <<"a">>, <<" ", "a", " ", " ", "a", "\n">>}
MaxPages == 3
RECURSIVE PartsUpTo(_)
PartsUpTo(n) ==
    IF n = 0 THEN {<<>>}
    ELSE LET shorter == PartsUpTo(n - 1)
         IN shorter \cup {Append(p, t) : p \in {q \in shorter : Len(q) = n - 1},
                                          t \in PartTexts}

\* the normalised texts of the pages, in page order
PageTextsOf(parts) == [i \in 1..Len(parts) |-> NormalizeText(parts[i])]
\* the texts that are not blank (text.strip() is not empty), in order
RECURSIVE NonBlank(_)
NonBlank(texts) ==
    IF texts = <<>> THEN <<>>
    ELSE (IF Strip(Head(texts)) = <<>> THEN <<>> ELSE <<Head(texts)>>) \o NonBlank(Tail(texts))

ExtractPdfTextCountingTextPages(parts) ==
    LET text_parts == NonBlank(PageTextsOf(parts))
    IN [text |-> Join(text_parts, <<"\n", "\n">>),
        total_pages |-> Len(text_parts),
        pages_without_text |-> Len(parts) - Len(text_parts)]
\* extract_pdf_text: (full_text, total_pages, pages_without_text)
ExtractPdfText(parts) ==
    LET text_parts == NonBlank(PageTextsOf(parts))
    IN [text |-> Join(text_parts, <<"\n", "\n">>),
        total_pages |-> Len(parts),
        pages_without_text |-> Len(parts) - Len(text_parts)]

\* extract_docx_text: the paragraphs that have text, joined and normalised
ExtractDocxText(parts) ==
    [text |-> NormalizeText(Join(NonBlank(parts), <<"\n", "\n">>)),
     total_pages |-> 1, pages_without_text |-> 0]

\* extract_txt_text: the decoded bytes, normalised
ExtractTxtText(parts) ==
    [text |-> NormalizeText(Join(parts, <<"\n">>)), total_pages |-> 1,
     pages_without_text |-> 0]

\* extract_text(file_bytes, file_name, mime_type).  file_bytes is [readable, parts]:
\* PyMuPDF and python-docx raise on bytes they cannot open, decoding never fails.
\* attempted: the extractors that were called
ExtractText(file_bytes, file_name, mime_type) ==
    LET extractor == SelectExtractor(file_name, mime_type)
        extracted == CASE extractor = "pdf" -> ExtractPdfText(file_bytes.parts)
                       [] extractor = "docx" -> ExtractDocxText(file_bytes.parts)
                       [] OTHER -> ExtractTxtText(file_bytes.parts)
        failed(error, attempted) ==
            [raised |-> TRUE, error |-> error, attempted |-> attempted, text |-> <<>>,
             total_pages |-> 0, pages_without_text |-> 0]
    IN IF extractor = "unsupported" THEN failed("ValueError: Unsupported file type", <<>>)
       ELSE IF extractor \in {"pdf", "docx"} /\ ~file_bytes.readable
       THEN failed("Exception", <<extractor>>)
       ELSE [raised |-> FALSE, error |-> None, attempted |-> <<extractor>>,
             text |-> extracted.text, total_pages |-> extracted.total_pages,
             pages_without_text |-> extracted.pages_without_text]

\* one call of extract_text
ExtractTextCall ==
    /\ ocrCall.fn = "extract_text"
    /\ ocrCall.pc = "called"
    /\ ocrCall' = [ocrCall EXCEPT !.pc = "returned",
                                  !.result = ExtractText(ocrCall.file_bytes, ocrCall.file_name,
                                                         ocrCall.mime_type)]
    /\ UNCHANGED <<svc, startupLog, uniqueJobs, uniqueDocs, jobs, docs, clock, calls, hist,
                   sent, raced>>
    /\ UNCHANGED <<pipeVars, chatVars>>

ExtractCalls ==
    [pc : {"called"}, fn : {"extract_text"}, file_name : FileNames, mime_type : MimeTypes,
     file_bytes : [readable : BOOLEAN, parts : {<<<<"a">>, <<>>>>}], result : {<<>>}]

Und == <<"u", "n", "d">>
LowerLetters ==
    {"a", "b", "c", "d", "e", "f", "g", "h", "i", "j", "k", "l", "m", "n", "o", "p", "q",
     "r", "s", "t", "u", "v", "w", "x", "y", "z"}
\* re.match(r'^[a-z]{2}$', lang): $ also matches before a final line break
IsLanguageCode(lang) ==
    /\ Len(lang) >= 2
    /\ lang[1] \in LowerLetters
    /\ lang[2] \in LowerLetters
    /\ Len(lang) = 2 \/ (Len(lang) = 3 /\ lang[3] = "\n")

\* what langdetect.detect(text) does: it returns a code or raises
PrimaryOutcomes ==
    {[kind |-> "lang", lang |-> <<"e", "n">>],
     [kind |-> "lang", lang |-> <<"z", "h", "-", "c", "n">>],
     [kind |-> "LangDetectException", lang |-> <<>>],
     [kind |-> "Exception", lang |-> <<>>]}
\* what langdetect.detect_langs(text) does: it returns the candidates, most probable
\* first, with their probability in hundredths, or raises
FallbackOutcomes ==
    {[kind |-> "langs", langs |-> <<[lang |-> <<"f", "r">>, prob |-> 75]>>],
     [kind |-> "langs", langs |-> <<[lang |-> <<"f", "r">>, prob |-> 74],
                                    [lang |-> <<"e", "n">>, prob |-> 26]>>],
     [kind |-> "langs", langs |-> <<[lang |-> <<"z", "h", "-", "t", "w">>, prob |-> 99]>>],
     [kind |-> "langs", langs |-> <<>>],
     [kind |-> "Exception", langs |-> <<>>]}

\* detect_language(text), given what the two detectors do on the text: the value
\* returned, or the exception that leaves the function
DetectLanguage(text, primary, fallback) ==
    LET returns(lang) == [raised |-> FALSE, value |-> lang]
    IN IF text = <<>> \/ Strip(text) = <<>> THEN returns(Und)
       ELSE IF primary.kind = "lang"
       THEN IF IsLanguageCode(primary.lang) THEN returns(primary.lang) ELSE returns(Und)
       ELSE IF primary.kind = "LangDetectException"
       THEN IF fallback.kind = "langs"
            THEN IF /\ fallback.langs # <<>>
                    /\ fallback.langs[1].prob >= 75
                    /\ IsLanguageCode(fallback.langs[1].lang)
                 THEN returns(fallback.langs[1].lang)
                 ELSE returns(Und)
            ELSE returns(Und)
       ELSE [raised |-> TRUE, value |-> <<>>]

\* one call of detect_language
DetectLanguageCall ==
    /\ ocrCall.fn = "detect_language"
    /\ ocrCall.pc = "called"
    /\ ocrCall' = [ocrCall EXCEPT !.pc = "returned",
                                  !.result = DetectLanguage(ocrCall.text, ocrCall.primary,
                                                            ocrCall.fallback)]
    /\ UNCHANGED <<svc, startupLog, uniqueJobs, uniqueDocs, jobs, docs, clock, calls, hist,
                   sent, raced>>
    /\ UNCHANGED <<pipeVars, chatVars>>

DetectCalls ==
    [pc : {"called"}, fn : {"detect_language"}, text : {<<>>, <<" ", "\n">>, <<"a">>},
     primary : PrimaryOutcomes, fallback : FallbackOutcomes, result : {<<>>}]

\* the maximal runs of whitespace and of other characters a text is made of, in order
RECURSIVE Runs(_)
Runs(t) ==
    IF t = <<>> THEN <<>>
    ELSE LET set == IF Head(t) \in Whitespace THEN Whitespace ELSE Alphabet \ Whitespace
             rest == DropLeading(t, set)
         IN <<SubSeq(t, 1, Len(t) - Len(rest))>> \o Runs(rest)

\* what text_splitter.split_text(text) can return.  The splitter is a library object
\* built in __init__; chunk_text strips its pieces and drops the empty ones, so the
\* pieces are taken to be of three kinds:
\*   "whole": the text fits the chunk size and comes back as one piece;
\*   "words": the text is cut at its separators and the pieces come back stripped;
\*   "raw":   the text is cut at its separators and the separators come back as
\*            pieces of their own (whitespace-only pieces)
Splitters == {"whole", "words", "raw"}
SplitText(text, splitter) ==
    CASE splitter = "whole" -> <<text>>
      [] splitter = "words" -> NonBlank(Runs(text))
      [] OTHER -> Runs(text)

\* the loop of chunk_text over enumerate(chunks), from the piece at position i on
RECURSIVE ValidChunks(_, _)
ValidChunks(pieces, i) ==
    IF i > Len(pieces) THEN <<>>
    ELSE LET chunk_text == Strip(pieces[i])
         IN (IF chunk_text = <<>> THEN <<>>
             ELSE <<[chunk_index |-> i - 1, text |-> chunk_text]>>)
            \o ValidChunks(pieces, i + 1)

\* chunk_text(text, page_index, total_pages)
ChunkText(text, splitter) ==
    IF text = <<>> \/ Strip(text) = <<>> THEN <<>>
    ELSE ValidChunks(SplitText(text, splitter), 1)

\* the chunks of one page, as process_document appends them to all_chunks
PageChunks(text, page_index, total_pages, language, splitter) ==
    LET page_chunks == ChunkText(text, splitter)
    IN [i \in 1..Len(page_chunks) |->
           [language |-> language, total_page_count |-> total_pages,
            page_index |-> page_index, chunk_index |-> page_chunks[i].chunk_index,
            text |-> page_chunks[i].text]]

\* the loop of process_document over the pages of a multi-page PDF, from page_num on
RECURSIVE AllPageChunks(_, _, _, _, _)
AllPageChunks(parts, page_num, total_pages, language, splitter) ==
    IF page_num >= total_pages THEN <<>>
    ELSE LET page_text == NormalizeText(parts[page_num + 1])
         IN (IF Strip(page_text) # <<>>
             THEN PageChunks(page_text, page_num, total_pages, language, splitter)
             ELSE <<>>)
            \o AllPageChunks(parts, page_num + 1, total_pages, language, splitter)

\* process_document(file_bytes, file_name, mime_type=mime_type), given what the
\* splitter and the language detectors do.  An exception of extract_text or of
\* detect_language leaves the function.  doc_id, which nothing below reads, is left out
ProcessDocument(file_bytes, file_name, mime_type, splitter, primary, fallback) ==
    LET extracted == ExtractText(file_bytes, file_name, mime_type)
        text == extracted.text
        total_pages == extracted.total_pages
        detected == DetectLanguage(text, primary, fallback)
        language == detected.value
        all_chunks == IF total_pages = 1
                      THEN PageChunks(text, 0, total_pages, language, splitter)
                      ELSE AllPageChunks(file_bytes.parts, 0, total_pages, language, splitter)
        raises == [raised |-> TRUE, language |-> <<>>, total_page_count |-> 0,
                   pages_without_text |-> 0, chunks |-> <<>>, chunks_emitted |-> 0,
                   lang_undetected |-> FALSE]
    IN IF extracted.raised THEN raises
       ELSE IF text = <<>> \/ Strip(text) = <<>>
       THEN [raised |-> FALSE, language |-> Und, total_page_count |-> total_pages,
             pages_without_text |-> extracted.pages_without_text, chunks |-> <<>>,
             chunks_emitted |-> 0, lang_undetected |-> FALSE]
       ELSE IF detected.raised THEN raises
       ELSE [raised |-> FALSE, language |-> language, total_page_count |-> total_pages,
             pages_without_text |-> extracted.pages_without_text, chunks |-> all_chunks,
             chunks_emitted |-> Len(all_chunks), lang_undetected |-> (language = Und)]

\* one call of process_document by run_pipeline
ProcessDocumentCall ==
    /\ ocrCall.fn = "process_document"
    /\ ocrCall.pc = "called"
    /\ ocrCall' = [ocrCall EXCEPT
                     !.pc = "returned",
                     !.result = ProcessDocument(ocrCall.file_bytes, ocrCall.file_name,
                                                ocrCall.mime_type, ocrCall.splitter,
                                                ocrCall.primary, ocrCall.fallback)]
    /\ UNCHANGED <<svc, startupLog, uniqueJobs, uniqueDocs, jobs, docs, clock, calls, hist,
                   sent, raced>>
    /\ UNCHANGED <<pipeVars, chatVars>>

DocOutcomeIgnoringEmpty(result) ==
    IF result.raised
    THEN [status |-> "failed", message |-> "error", counted |-> FALSE,
          counts |-> OcrCounts(result)]
    ELSE [status |-> "processing", message |-> "Downloading file", counted |-> FALSE,
          counts |-> OcrCounts(result)]
\* what run_pipeline records on the file's doc right after process_document: the
\* except block for an exception, the zero-chunk branch, or nothing yet
DocOutcome(result) ==
    IF result.raised
    THEN [status |-> "failed", message |-> "error", counted |-> FALSE,
          counts |-> OcrCounts(result)]
    ELSE IF result.chunks_emitted = 0
    THEN [status |-> "failed", message |-> "No extractable text found", counted |-> TRUE,
          counts |-> [OcrCounts(result) EXCEPT !.chunks_emitted = 0]]
    ELSE [status |-> "processing", message |-> "Downloading file", counted |-> FALSE,
          counts |-> OcrCounts(result)]

\* run_pipeline's step after process_document returned or raised
RecordOcrResult ==
    /\ ocrCall.fn = "process_document"
    /\ ocrCall.pc = "returned"
    /\ ocrCall' = [ocrCall EXCEPT !.pc = "recorded", !.doc = DocOutcome(ocrCall.result)]
    /\ UNCHANGED <<svc, startupLog, uniqueJobs, uniqueDocs, jobs, docs, clock, calls, hist,
                   sent, raced>>
    /\ UNCHANGED <<pipeVars, chatVars>>

ProcessCalls ==
    [pc : {"called"}, fn : {"process_document"},
     file_name : {<<"a", ".", "p", "d", "f">>, <<"a", ".", "d", "o", "c", "x">>,
                  <<"a", ".", "t", "x", "t">>, <<"a", ".", "p", "n", "g">>},
     mime_type : {None},
     file_bytes : [readable : BOOLEAN, parts : PartsUpTo(MaxPages)],
     splitter : Splitters,
     primary : PrimaryOutcomes,
     fallback : {f \in FallbackOutcomes : f.langs = <<>>},
     result : {<<>>}, doc : {<<>>}]

NormalizeCalls == [pc : {"called"}, fn : {"normalize_text"}, text : Texts, once : {<<>>},
                   twice : {<<>>}]

NextOcr ==
    \/ NormalizeTextCall
    \/ ExtractTextCall
    \/ DetectLanguageCall
    \/ ProcessDocumentCall
    \/ RecordOcrResult

InitOcr ==
    /\ LedgerAtRest
    /\ settings = NoSettings
    /\ chat = NoChat
    /\ ctx = NoCtx
    /\ ocrCall \in NormalizeCalls \cup ExtractCalls \cup DetectCalls \cup ProcessCalls

SpecOcr == InitOcr /\ [][NextOcr]_vars

----------------------------------------------------------------------------
(* The endpoint POST /ocr/process (app/routers/ocr.py process_ocr)          *)
(*                                                                         *)
(* The endpoint keeps the same ledger as run_pipeline, without embedding.  *)
(* Here `outputs` holds one triple (dataset, source file, Drive file id)   *)
(* per JSON artifact that exists: Drive allows several files of one name   *)
(* in a folder, and every upload creates a new one.                        *)

\* the Drive ids of the JSON artifacts, in the order they are created
JsonFileIds == <<"json1", "json2", "json3", "json4">>

\* the ids of the artifacts of one source file
ExistingOutputIds(outs, dataset_name, file_id) ==
    {o[3] : o \in {x \in outs : x[1] = dataset_name /\ x[2] = file_id}}

\* what the files().list call of file_exists_in_folder can do: answer, fail with
\* HttpError (as it does for a name with an apostrophe, which the query does not
\* escape), or fail with another exception
ExistenceCheckOutcomes == {"ok", "HttpError", "raise"}

\* file_exists_in_folder: the id of the first file listed (first, one of ids), None
\* when none is listed, and None as well when the call fails with HttpError
FileExistsInFolder(ids, check, first) ==
    [raised |-> check = "raise",
     id |-> IF check # "ok" \/ ids = {} THEN None ELSE first]

\* process_ocr up to the for loop.  When listing the folder fails, the job is finished
\* as "failed" and HTTP 500 is raised
ProcessOcrStart(r, dataset_name, force, listing) ==
    /\ svc = "available"
    /\ runs[r] = NoRun
    /\ FirstUse(r, dataset_name)
    /\ LET cj == CreateJob(jobs, dataset_name, "folder1", "folder1", clock)
           job_id == cj.id
           run == [pc |-> "loop", dataset_name |-> dataset_name, force |-> force,
                   files |-> <<>>, i |-> 1, job_id |-> job_id,
                   files_processed |-> 0, files_skipped |-> 0, files_failed |-> 0,
                   drive_calls |-> {}]
       IN IF listing.raised
          THEN /\ jobs' = [cj.jobs EXCEPT ![job_id].status = "failed"]
               /\ runs' = [runs EXCEPT ![r] = [run EXCEPT !.pc = "raised"]]
          ELSE /\ jobs' = [cj.jobs EXCEPT ![job_id].counters =
                              IncFields(@, [files_discovered |-> Len(listing.files)])]
               /\ runs' = [runs EXCEPT ![r] = [run EXCEPT !.files = listing.files]]
    /\ clock' = clock + 1
    /\ UNCHANGED <<svc, startupLog, uniqueJobs, uniqueDocs, docs, calls, hist, sent, raced>>
    /\ UNCHANGED <<outputs, embedLog>>
    /\ UNCHANGED <<chatVars, ocrCall>>

\* the "except Exception" of the per-file try of process_ocr
OcrFileFailed(run, js, ds, outs, doc_id, now, made) ==
    [jobs |-> [js EXCEPT ![run.job_id].counters = IncFields(@, [files_failed |-> 1]),
                         ![run.job_id].updated_at = now],
     docs |-> [ds EXCEPT ![doc_id] = SetDocStatus(@, "failed", "error", now)],
     outputs |-> outs,
     run |-> [run EXCEPT !.files_failed = @ + 1, !.i = @ + 1,
                         !.drive_calls = @ \cup made]]

\* one iteration of the for loop of process_ocr.  pre: ensure_folder_hierarchy succeeds
\* or raises; check, first: the existence check (see FileExistsInFolder); dl: the
\* download and process_document succeed or raise; ocr: the OCR result; up: the upload
\* succeeds or raises.  drive_calls is the history of the download, processing and
\* upload calls the run made, by file
OcrFileStep(run, js, ds, outs, now, pre, check, first, dl, ocr, up) ==
    LET file_id == run.files[run.i]
        cd == CreateDoc(ds, run.job_id, run.dataset_name, file_id,
                        SourcePath(run.dataset_name, file_id), SourceUrl(file_id), now)
        doc_id == cd.id
        exists == FileExistsInFolder(ExistingOutputIds(outs, run.dataset_name, file_id),
                                     check, first)
        existing_file_id == IF run.force THEN None ELSE exists.id
        ds1 == [cd.docs EXCEPT ![doc_id] = SetDocStatus(@, "processing", "Downloading file", now)]
        new_id == JsonFileIds[Cardinality(outs) + 1]
    IN IF pre = "raise" \/ (~run.force /\ exists.raised)
       THEN [jobs |-> js, docs |-> cd.docs, outputs |-> outs,
             run |-> [run EXCEPT !.pc = "raised"]]
       ELSE IF existing_file_id # None
       THEN [jobs |-> js,
             docs |-> [cd.docs EXCEPT ![doc_id] =
                          SetDocOutput(SetDocStatus(@, "skipped", "Output file already exists",
                                                    now),
                                       existing_file_id, "path", now)],
             outputs |-> outs,
             run |-> [run EXCEPT !.files_skipped = @ + 1, !.i = @ + 1]]
       ELSE IF dl = "raise"
       THEN OcrFileFailed(run, js, ds1, outs, doc_id, now, {<<file_id, "download">>})
       ELSE IF ocr.chunks_emitted = 0
       THEN [jobs |-> [js EXCEPT ![run.job_id].counters =
                          IncFields(@, [files_failed |-> 1,
                                        pages_processed |-> ocr.total_page_count,
                                        pages_without_text |-> ocr.pages_without_text,
                                        lang_undetected_count |->
                                            IF ocr.lang_undetected THEN 1 ELSE 0]),
                                 ![run.job_id].updated_at = now],
             docs |-> [ds1 EXCEPT ![doc_id] =
                          SetDocCounts(SetDocStatus(@, "failed", "No extractable text found", now),
                                       [OcrCounts(ocr) EXCEPT !.chunks_emitted = 0], now)],
             outputs |-> outs,
             run |-> [run EXCEPT !.files_failed = @ + 1, !.i = @ + 1,
                                 !.drive_calls = @ \cup {<<file_id, "download">>,
                                                         <<file_id, "process_document">>}]]
       ELSE IF up = "raise"
       THEN OcrFileFailed(run, js, ds1, outs, doc_id, now,
                          {<<file_id, "download">>, <<file_id, "process_document">>,
                           <<file_id, "upload">>})
       ELSE [jobs |-> [js EXCEPT ![run.job_id].counters =
                          IncFields(@, [files_processed |-> 1,
                                        pages_processed |-> ocr.total_page_count,
                                        pages_without_text |-> ocr.pages_without_text,
                                        chunks_emitted |-> ocr.chunks_emitted,
                                        lang_undetected_count |->
                                            IF ocr.lang_undetected THEN 1 ELSE 0]),
                                 ![run.job_id].updated_at = now],
             docs |-> [ds1 EXCEPT ![doc_id] =
                          SetDocCounts(
                              SetDocOutput(SetDocStatus(@, "ok", "Processed successfully", now),
                                           new_id, "path", now),
                              OcrCounts(ocr), now)],
             outputs |-> outs \cup {<<run.dataset_name, file_id, new_id>>},
             run |-> [run EXCEPT !.files_processed = @ + 1, !.i = @ + 1,
                                 !.drive_calls = @ \cup {<<file_id, "download">>,
                                                         <<file_id, "process_document">>,
                                                         <<file_id, "upload">>}]]

\* an outcome is drawn only for the calls the iteration gets to; the outcomes of the
\* calls not made are held at "ok", and `first` at None when nothing is listed
OcrCallsMade(run, outs, pre, check, first, dl, ocr, up) ==
    LET ids == ExistingOutputIds(outs, run.dataset_name, run.files[run.i])
        listed == ~run.force /\ pre = "ok" /\ check = "ok" /\ ids # {}
        stopped == pre = "raise" \/ (~run.force /\ check = "raise") \/ listed
    IN /\ (run.force \/ pre = "raise") => check = "ok"
       /\ IF listed THEN first \in ids ELSE first = None
       /\ stopped => dl = "ok"
       /\ (stopped \/ dl = "raise") => ocr.chunks_emitted = 0
       /\ (stopped \/ dl = "raise" \/ ocr.chunks_emitted = 0) => up = "ok"

\* the body of the for loop of process_ocr for the next listed file
ProcessOcrFile(r) ==
    /\ runs[r].pc = "loop"
    /\ runs[r].i <= Len(runs[r].files)
    /\ \E pre \in Outcomes, check \in ExistenceCheckOutcomes,
          first \in {None} \cup {JsonFileIds[k] : k \in 1..Len(JsonFileIds)},
          dl \in Outcomes, ocr \in OcrResults, up \in Outcomes :
          /\ OcrCallsMade(runs[r], outputs, pre, check, first, dl, ocr, up)
          /\ LET s == OcrFileStep(runs[r], jobs, docs, outputs, clock,
                                  pre, check, first, dl, ocr, up)
             IN /\ jobs' = s.jobs
                /\ docs' = s.docs
                /\ outputs' = s.outputs
                /\ runs' = [runs EXCEPT ![r] = s.run]
    /\ UNCHANGED <<svc, startupLog, uniqueJobs, uniqueDocs, clock, calls, hist, sent, raced>>
    /\ UNCHANGED <<embedLog, chatVars, ocrCall>>

\* the final job status of process_ocr, from the run's tallies
OcrJobStatus(files_failed, files_processed) ==
    IF files_failed = 0 THEN "completed"
    ELSE IF files_processed > 0 THEN "completed_with_errors"
    ELSE "failed"

\* after the loop: finish_job and the response
ProcessOcrFinish(r) ==
    /\ runs[r].pc = "loop"
    /\ runs[r].i > Len(runs[r].files)
    /\ jobs' = [jobs EXCEPT ![runs[r].job_id].status =
                   OcrJobStatus(runs[r].files_failed, runs[r].files_processed),
                            ![runs[r].job_id].updated_at = clock]
    /\ runs' = [runs EXCEPT ![r].pc = "returned"]
    /\ UNCHANGED <<svc, startupLog, uniqueJobs, uniqueDocs, docs, clock, calls, hist, sent, raced>>
    /\ UNCHANGED <<outputs, embedLog>>
    /\ UNCHANGED <<chatVars, ocrCall>>

NextProcessOcr ==
    \/ \E r \in RunIds, d \in Datasets, force \in BOOLEAN, l \in ListingOutcomes :
          ProcessOcrStart(r, d, force, l)
    \/ \E r \in RunIds : ProcessOcrFile(r)
    \/ \E r \in RunIds : ProcessOcrFinish(r)

SpecProcessOcr == InitPipeline /\ [][NextProcessOcr]_vars

----------------------------------------------------------------------------
(* The ids of the vectors run_pipeline upserts (ingestion_service.py)      *)
(*                                                                         *)
(* `ctx` holds one run over two listed files that both reach the embedding *)
(* block: the files, the position in the loop, files_processed and the     *)
(* vectors upserted so far.                                                *)

\* the length doc_id_str is cut to
DocIdMaxChars == 50

\* str.replace(old, new) for one-character strings
ReplaceChar(s, old, new) ==
    [k \in 1..Len(s) |-> IF s[k] = old THEN new ELSE s[k]]

\* s[:n]
Prefix(s, n) == SubSeq(s, 1, IF Len(s) < n THEN Len(s) ELSE n)

\* what the metadata model can make of a document: the call or the parsing of its
\* answer fails, the answer has no document_id key (a custom schema), or it has one
\* (null and "" both end as the empty string)
MetadataOutcomes ==
    {[kind |-> "failed", has_document_id |-> FALSE, document_id |-> <<>>],
     [kind |-> "extracted", has_document_id |-> FALSE, document_id |-> <<>>]}
    \cup {[kind |-> "extracted", has_document_id |-> TRUE, document_id |-> d] :
             d \in {<<>>, <<"d", " ", "1">>, <<"d", "/", "1">>, <<"d", "2">>}}

\* extract_metadata, as far as the document_id goes: the extracted dictionary, or the
\* dictionary of empty strings when the extraction failed
ExtractMetadata(out) ==
    IF out.kind = "failed" THEN [has_document_id |-> TRUE, document_id |-> <<>>]
    ELSE [has_document_id |-> out.has_document_id, document_id |-> out.document_id]

\* doc_id_str: metadata.get("document_id", default), blanks and slashes replaced by
\* underscores, cut to 50 characters
DocIdStr(metadata, file_name, files_processed) ==
    LET doc_id_str == IF metadata.has_document_id THEN metadata.document_id
                      ELSE <<"d", "o", "c", "_">> \o file_name \o <<"_">>
                               \o Digits(files_processed)
    IN Prefix(ReplaceChar(ReplaceChar(doc_id_str, " ", "_"), "/", "_"), DocIdMaxChars)

\* vector_id = f"{doc_id_str}_p{page_index}_c{chunk_index}"
VectorId(doc_id_str, page_index, chunk_index) ==
    Str(doc_id_str \o <<"_", "p">> \o Digits(page_index) \o <<"_", "c">>
            \o Digits(chunk_index))

\* the files of the listing: a name and the (page_index, chunk_index) of its chunks
ListedNames == {<<"a", ".", "p", "d", "f">>, <<"b", " ", "c">>}
ChunkPositions == {<<<<0, 0>>>>, <<<<0, 0>>, <<0, 1>>, <<2, 2>>>>}
ListedFiles == [file_name : ListedNames, chunks : ChunkPositions]

\* the embedding block for the next file of the run: the vectors of its chunks are
\* built and upserted
UpsertVectors(out) ==
    /\ ctx.pc = "loop"
    /\ ctx.fn = "run_pipeline"
    /\ ctx.i <= Len(ctx.files)
    /\ LET file == ctx.files[ctx.i]
           files_processed == ctx.files_processed + 1
           metadata == ExtractMetadata(out)
           vectors_to_upsert ==
               {[file |-> ctx.i, page_index |-> c[1], chunk_index |-> c[2],
                 id |-> VectorId(DocIdStr(metadata, file.file_name, files_processed),
                                 c[1], c[2])] :
                   c \in {file.chunks[k] : k \in 1..Len(file.chunks)}}
       IN ctx' = [ctx EXCEPT !.i = @ + 1,
                             !.files_processed = files_processed,
                             !.metadata = Append(@, out),
                             !.upserted = @ \cup vectors_to_upsert]
    /\ UNCHANGED <<svc, startupLog, uniqueJobs, uniqueDocs, jobs, docs, clock, calls, hist,
                   sent, raced>>
    /\ UNCHANGED <<pipeVars, settings, chat, ocrCall>>

NextVectors == \E out \in MetadataOutcomes : UpsertVectors(out)

\* a run over two files with different names
InitVectors ==
    /\ LedgerAtRest
    /\ settings = NoSettings
    /\ chat = NoChat
    /\ ocrCall = NoOcr
    /\ ctx \in {c \in [pc : {"loop"}, fn : {"run_pipeline"},
                       files : [1..2 -> ListedFiles], i : {1}, files_processed : {0},
                       metadata : {<<>>}, upserted : {{}}] :
                   c.files[1].file_name # c.files[2].file_name}

SpecVectors == InitVectors /\ [][NextVectors]_vars

----------------------------------------------------------------------------
(* Properties of the jobs collection *)

CompletedCalls(op) == {h \in hist : h.op = op /\ ~h.raised}
JobsOf(d) == {i \in 1..Len(jobs) : jobs[i].dataset_name = d}

\* C2: after any sequence of create_job calls the jobs collection holds exactly one
\* record for each dataset_name passed to a completed call and never two records with
\* one dataset_name.  It holds for calls made one after the other, and for overlapping
\* calls as well when the unique index on dataset_name exists.
C2_OneJobPerDataset ==
    (uniqueJobs \/ ~raced) =>
        /\ \A h \in CompletedCalls("create_job") : Cardinality(JobsOf(h.key[1])) = 1
        /\ \A d \in Datasets : Cardinality(JobsOf(d)) <= 1

\* a first run and a rerun of one dataset, and a first run of another, have completed
C2_Witness ==
    /\ \E g, h \in CompletedCalls("create_job") : g.key = h.key /\ g.at # h.at
    /\ \E g, h \in CompletedCalls("create_job") : g.key # h.key

\* C4 (as claimed): no create_job call fails when two calls for one new dataset_name
\* both look up before either inserts; the call that meets the unique-key violation
\* reads the existing record, and both calls return the id of the one stored record.
C4_NoCallFails ==
    \A h \in hist : ~h.raised

\* C5: a create_job call for a dataset_name that an earlier call was completed for
\* returns the id the earlier call returned, and leaves the seven counters and the
\* three embedding_counters at zero and status "running", whatever was written to the
\* job in between.
C5_RerunSameIdAndZeroed ==
    [][(uniqueJobs \/ ~raced') =>
         \A h \in CompletedCalls("create_job")' \ CompletedCalls("create_job") :
            \A g \in CompletedCalls("create_job") :
                g.key = h.key =>
                    /\ g.id = h.id
                    /\ jobs'[h.id].counters = ZeroCounters
                    /\ jobs'[h.id].embedding_counters = ZeroEmbeddingCounters
                    /\ jobs'[h.id].status = "running"]_vars

\* a rerun has just reset a job whose counters had been incremented: the rerun's write
\* is the latest write to the job, and increments were sent between the two calls
C5_Witness ==
    \E g, h \in CompletedCalls("create_job") :
        /\ g.key = h.key /\ g.at + 1 < h.at /\ h.existed
        /\ jobs[h.id].updated_at = h.at
        /\ jobs[h.id].counters = ZeroCounters

\* C7: create_job on an existing dataset_name leaves the job's created_at (and its
\* dataset_name) as the first insert set them; no later call of any kind changes them.
C7_CreatedAtPreserved ==
    [][\A i \in 1..Len(jobs) :
          /\ jobs'[i].created_at = jobs[i].created_at
          /\ jobs'[i].dataset_name = jobs[i].dataset_name]_vars

\* a rerun at a later time than the first insert has rewritten the job
C7_Witness ==
    \E h \in CompletedCalls("create_job") :
        /\ h.existed
        /\ jobs[h.id].created_at < h.at
        /\ jobs[h.id].updated_at = h.at
        /\ jobs[h.id].input_folder_id = "folder2"

\* C9: for any interleaving of update_job_counters and update_job_embedding_counters
\* calls of the workers on one job, every counter equals the sum of the increments
\* passed for it since the job's counters were last zeroed: none is lost or doubled.
C9_NoLostIncrement ==
    \A j \in 1..Len(jobs) :
        /\ jobs[j].counters = sent[j].counters
        /\ jobs[j].embedding_counters = sent[j].embedding_counters

\* a counter has received two increments, and an embedding counter one
C9_Witness ==
    \E j \in 1..Len(jobs) :
        /\ jobs[j].counters["files_failed"] = 2
        /\ jobs[j].embedding_counters["files_embedded"] = 1

----------------------------------------------------------------------------
(* Properties of the docs collection *)

DocsOf(k) == {i \in 1..Len(docs) : /\ docs[i].dataset_name = k[1]
                                   /\ docs[i].source_drive_file_id = k[2]}

\* C3: two completed create_doc calls with one (dataset_name, source_drive_file_id),
\* whatever their job ids, return the same doc id, and exactly one doc record is stored
\* for the pair.  It holds for calls made one after the other, and for overlapping
\* calls as well when the unique compound index exists.
C3_OneDocPerKey ==
    (uniqueDocs \/ ~raced) =>
        \A g, h \in CompletedCalls("create_doc") :
            g.key = h.key => g.id = h.id /\ DocsOf(h.key) = {h.id}

\* two calls with one key and different job ids have completed, next to a call that
\* shares only the dataset and a call that shares only the file id
C3_Witness ==
    \E g, h \in CompletedCalls("create_doc") :
        /\ g.key = h.key /\ g.at < h.at /\ h.existed
        /\ docs[h.id].job_id # h.before[2]
        /\ Len(docs) = 2

\* C6: create_doc on an existing (dataset_name, source_drive_file_id) sets status to
\* "queued", the four counts to zero, embedded to false with embeddings_count,
\* pinecone_index and embedded_at cleared, job_id to the job_id passed, and leaves
\* created_at as it was.
C6_ResetDoc ==
    [][\A w \in Workers :
          (calls[w].op = "create_doc" /\ calls'[w] = Idle /\ calls[w].existing # 0) =>
              LET d == docs'[calls[w].existing]
              IN /\ d.status = "queued"
                 /\ d.counts = ZeroCounts
                 /\ d.embedded = FALSE
                 /\ d.embeddings_count = <<>>
                 /\ d.pinecone_index = None
                 /\ d.embedded_at = <<>>
                 /\ d.job_id = calls[w].job_id
                 /\ d.created_at = docs[calls[w].existing].created_at]_vars

\* a doc that was embedded under one job has just been reset by a later call that
\* passed another job id
C6_Witness ==
    \E h \in CompletedCalls("create_doc") :
        /\ h.existed
        /\ h.before[1]
        /\ docs[h.id].job_id # h.before[2]
        /\ docs[h.id].updated_at = h.at
        /\ docs[h.id].created_at < h.at
        /\ docs[h.id].status = "queued"

----------------------------------------------------------------------------
(* Properties of run_pipeline *)

Started == {r \in RunIds : runs[r] # NoRun}

\* C1 (as claimed): in a run without force, a listed file whose doc was marked embedded
\* when the run started gets no embedding generation and no vector upsert in that run.
C1_EmbeddedFilesAreSkipped ==
    \A r \in Started :
        ~runs[r].force =>
            \A f \in runs[r].embedded_before :
                /\ <<r, f, "embedding">> \notin embedLog
                /\ <<r, f, "upsert">> \notin embedLog

\* C8: in every state of the ledger reached through run_pipeline runs, a doc with
\* embedded = true has an embeddings_count that is set and positive and a
\* pinecone_index that is set and not empty.
C8_EmbeddedHasCountAndIndex ==
    \A i \in 1..Len(docs) :
        docs[i].embedded =>
            /\ docs[i].embeddings_count # <<>>
            /\ docs[i].embeddings_count[1] > 0
            /\ docs[i].pinecone_index \notin {None, ""}

\* after a forced run and a run without force on one dataset, one doc is embedded and
\* another, reset by the later run, has failed
C8_Witness ==
    /\ Started = RunIds
    /\ runs["r1"].force # runs["r2"].force
    /\ runs["r1"].dataset_name = runs["r2"].dataset_name
    /\ \E i, j \in 1..Len(docs) :
          /\ docs[i].embedded
          /\ docs[j].status = "failed" /\ ~docs[j].embedded
          /\ docs[j].job_id = docs[i].job_id
          /\ docs[j].created_at < docs[j].updated_at

\* C10 (as claimed): when creating a unique index fails on duplicate records, the
\* failure is fatal: the service is not made available.
C10_DuplicateKeyFailureIsFatal ==
    (startupLog # {}) => svc # "available"

\* C11 (as claimed): in run_pipeline, a step of the for loop that records a file's
\* failure (files_failed counted) continues with the next file: the run stays in its
\* loop and moves to the next listed file; one document's failure never ends the batch.
C11_FailureContinuesBatch ==
    [][\A r \in RunIds :
          (/\ runs[r].pc = "loop"
           /\ runs'[r].pc # "idle"
           /\ runs'[r].files_failed = runs[r].files_failed + 1)
          => (runs'[r].pc = "loop" /\ runs'[r].i = runs[r].i + 1)]_vars

\* C12 (as claimed): the step in which a run_pipeline invocation ends, by returning or
\* by raising, leaves its job in a terminal status; no run leaves its job "running".
C12_RunEndsWithTerminalJob ==
    [][\A r \in RunIds :
          (runs[r].pc = "loop" /\ runs'[r].pc \in {"returned", "raised"})
          => jobs'[runs'[r].job_id].status \in TerminalStatuses]_vars

----------------------------------------------------------------------------
(* Properties of build_qna_context *)

\* the ranks (1-based positions) of the input chunks that have text
NonEmptyRanks == {i \in 1..Len(ctx.chunks) : Strip(ctx.chunks[i].text) # <<>>}
\* the block build_qna_context forms for the chunk of rank i
BlockOfRank(i) == Block(i, ctx.chunks[i], settings.RAG_MAX_SNIPPET_CHARS)
\* the part of a block that is not the snippet: its header and its two newlines
OverheadOfRank(i) ==
    Len(BlockOfRank(i)) - Len(Snippet(Strip(ctx.chunks[i].text), settings.RAG_MAX_SNIPPET_CHARS))
RECURSIVE BlocksLen(_)
BlocksLen(ranks) ==
    IF ranks = {} THEN 0
    ELSE LET i == CHOOSE r \in ranks : TRUE
         IN Len(BlockOfRank(i)) + BlocksLen(ranks \ {i})
\* the ranks the returned citation map cites
IncludedRanks == {ctx.citation_map[k].label : k \in 1..Len(ctx.citation_map)}
\* the blocks of the cited chunks, in the order of the citation map
IncludedBlocks == [k \in 1..Len(ctx.citation_map) |-> BlockOfRank(ctx.citation_map[k].label)]

\* C18: build_qna_context returns (it does not raise) the blocks of the non-empty
\* chunks in rank order up to, and not including, the first block that would make the
\* accumulated block length exceed RAG_MAX_CONTEXT_CHARS: the included blocks sum to
\* at most the limit, no chunk ranked after the stopping point is included, and the
\* citation map has one entry per block of the returned context, in the same order.
C18_StopsAtFirstOverflow ==
    ctx.pc = "returned" =>
        /\ \A k \in 1..Len(ctx.citation_map) :
              /\ ctx.citation_map[k].label \in NonEmptyRanks
              /\ k > 1 => ctx.citation_map[k - 1].label < ctx.citation_map[k].label
        /\ ctx.context_text = Join(IncludedBlocks, <<"\n">>)
        /\ BlocksLen(IncludedRanks) <= settings.RAG_MAX_CONTEXT_CHARS
        /\ \A j \in NonEmptyRanks :
              j \in IncludedRanks <=>
                  BlocksLen({i \in NonEmptyRanks : i <= j}) <= settings.RAG_MAX_CONTEXT_CHARS

\* a call that stopped at a block too large for the room left, after a whitespace-only
\* chunk and an included block, and left out a later chunk whose block would have fitted
C18_Witness ==
    /\ ctx.pc = "returned"
    /\ IncludedRanks # {}
    /\ \E e, j, m \in 1..Len(ctx.chunks) :
          /\ e \notin NonEmptyRanks /\ e < j /\ j < m
          /\ j \in NonEmptyRanks \ IncludedRanks
          /\ m \in NonEmptyRanks \ IncludedRanks
          /\ BlocksLen(IncludedRanks) + Len(BlockOfRank(m)) <= settings.RAG_MAX_CONTEXT_CHARS

\* C19 (as claimed): for an input whose blocks together exceed RAG_MAX_CONTEXT_CHARS,
\* the returned context text is at most the limit plus one block's overhead long (the
\* largest header-and-newlines overhead among the input's blocks).
C19_WithinOneBlockOverhead ==
    (ctx.pc = "returned" /\ BlocksLen(NonEmptyRanks) > settings.RAG_MAX_CONTEXT_CHARS) =>
        \E i \in NonEmptyRanks :
            Len(ctx.context_text) <= settings.RAG_MAX_CONTEXT_CHARS + OverheadOfRank(i)

\* C19 (amended): for an input whose blocks together exceed RAG_MAX_CONTEXT_CHARS, the
\* citation map has fewer entries than the input has chunks, and the returned context
\* text is at most the limit plus one joining newline per included block after the
\* first (the limit is applied to the blocks, the joining newlines are not counted).
C19_WithinLimitPlusJoins ==
    (ctx.pc = "returned" /\ BlocksLen(NonEmptyRanks) > settings.RAG_MAX_CONTEXT_CHARS) =>
        /\ Len(ctx.citation_map) < Len(ctx.chunks)
        /\ Len(ctx.citation_map) = 0 => Len(ctx.context_text) = 0
        /\ Len(ctx.citation_map) > 0 =>
              Len(ctx.context_text)
                  <= settings.RAG_MAX_CONTEXT_CHARS + Len(ctx.citation_map) - 1

\* an input over the limit whose returned text, with its joining newlines, is longer
\* than the limit
C19_Witness ==
    /\ ctx.pc = "returned"
    /\ BlocksLen(NonEmptyRanks) > settings.RAG_MAX_CONTEXT_CHARS
    /\ Len(ctx.citation_map) >= 2
    /\ Len(ctx.context_text) > settings.RAG_MAX_CONTEXT_CHARS

\* C20 (as claimed): the labels of the citation map entries are the consecutive
\* integers 1..n in order, wherever whitespace-only chunks occur in the input.
C20_LabelsAreConsecutive ==
    ctx.pc = "returned" =>
        \A k \in 1..Len(ctx.citation_map) : ctx.citation_map[k].label = k

----------------------------------------------------------------------------
(* Properties of the chat workflow *)

\* a graph execution is in progress or has ended
ChatStarted == chat.pc \notin {"idle", "http_422"}
Agents == {"question_answering_agent", "summary_generation_agent"}
\* the label the router's answer normalises to
RoutedLabel == Str(Lower(Strip(chat.router.content)))

\* C13: every execution of the chat graph enters decide_next_step first, then runs
\* exactly one of the two agents exactly once, the one the decision selects, then
\* ends: the nodes run are decide_next_step followed by one agent, no node runs twice,
\* and a next_step other than "summarize" routes to question answering.
C13_OneAgentOnce ==
    /\ \A v \in {None, "", "qna", "chat"} :
          Successor("decide_next_step", [NewChatState(None) EXCEPT !.next_step = v])
              = "question_answering_agent"
    /\ ChatStarted =>
          /\ Len(chat.trace) <= 2
          /\ chat.pc = "decide_next_step" <=> chat.trace = <<>>
          /\ Len(chat.trace) >= 1 => chat.trace[1] = "decide_next_step"
          /\ chat.pc \in Agents <=> Len(chat.trace) = 1
          /\ chat.pc \in Agents =>
                chat.pc = IF chat.state.next_step = "summarize"
                          THEN "summary_generation_agent" ELSE "question_answering_agent"
          /\ Len(chat.trace) = 2 =>
                /\ chat.trace[2] \in Agents
                /\ chat.trace[2] = "summary_generation_agent"
                       <=> chat.state.next_step = "summarize"
          /\ chat.pc \in {"END", "responded"} =>
                Len(chat.trace) = 2 /\ chat.generation.invoked

\* a request answered by the summary agent after the router answered "Summarize "
C13_Witness ==
    /\ chat.pc = "responded"
    /\ chat.trace = <<"decide_next_step", "summary_generation_agent">>
    /\ chat.router.content # <<"s", "u", "m", "m", "a", "r", "i", "z", "e">>

\* C14 (as claimed): when the routing model call fails, and when it returns a label
\* other than "qna" or "summarize", decide_next_step yields next_step = "qna" and
\* attaches an advisory error to the state.
C14_DefaultCarriesAdvisory ==
    (/\ ChatStarted
     /\ Len(chat.trace) >= 1
     /\ chat.router.raised \/ RoutedLabel \notin {"qna", "summarize"})
    => (chat.state.next_step = "qna" /\ Truthy(chat.decided_error))

\* the retrieval calls the agent made, by name
CallsTo(call) == {i \in 1..Len(chat.retrieval) : chat.retrieval[i].call = call}
SummaryRetrieved ==
    /\ ChatStarted
    /\ Len(chat.trace) = 2
    /\ chat.trace[2] = "summary_generation_agent"

\* C15 (as claimed): in summary_generation_agent with full-document mode on, when the
\* top-1 query returns no chunks, or the full-document fetch returns no chunks, the node
\* retrieves top-K chunks and builds the context with build_summary_context.
C15_FallsThroughToTopK ==
    (/\ SummaryRetrieved
     /\ Truthy(settings.SUMMARY_FULL_DOCUMENT_MODE)
     /\ \E i \in CallsTo("query_context") :
           /\ chat.retrieval[i].top_k = "1"
           /\ chat.retrieval[i].outcome = "chunks"
     /\ \E i \in 1..Len(chat.retrieval) :
           /\ chat.retrieval[i].call \in {"query_context", "fetch_full_document_chunks"}
           /\ chat.retrieval[i].returned = 0)
    => (/\ \E i \in CallsTo("query_context") : chat.retrieval[i].top_k = "RAG_TOP_K"
        /\ CallsTo("build_summary_context") # {})

\* C16 (as claimed): when a retrieval call of an agent (the query embedding or vector
\* query of query_context, or the query of the full-document fetch) raised, the agent
\* holds an advisory error message, the context it passes to generation is the
\* "insufficient context" marker, and generation is invoked.
C16_RetrievalFailureIsAdvised ==
    (/\ ChatStarted
     /\ Len(chat.trace) = 2
     /\ \E i \in 1..Len(chat.retrieval) : chat.retrieval[i].outcome # "chunks")
    => (/\ Truthy(chat.local.error_message)
        /\ chat.local.context_text = Marker
        /\ chat.pc \in {"END", "responded"} =>
              /\ chat.generation.invoked
              /\ chat.generation.context = Marker
              /\ Truthy(chat.state.error))

\* C17: whatever the outcomes of routing, retrieval and generation, a graph run ends
\* and the endpoint returns a ChatResponse whose type is qna, summary, error or
\* unknown; when generation failed, the answer or summary is the fixed apology and the
\* response carries an advisory error.
C17_AlwaysAStructuredResponse ==
    /\ (ChatStarted /\ chat.pc # "responded") => ENABLED NextChat
    /\ chat.pc = "responded" =>
          /\ chat.response.type \in {"qna", "summary", "error", "unknown"}
          /\ chat.generation.raised =>
                /\ Truthy(chat.response.error)
                /\ chat.response.type = "qna" =>
                      chat.response.answer = "I'm sorry, I couldn't generate an answer right now."
                /\ chat.response.type = "summary" =>
                      chat.response.summary = "I'm sorry, I couldn't generate a summary right now."
                /\ chat.response.type \in {"qna", "summary"}

\* a response returned after routing, retrieval and generation all failed
C17_Witness ==
    /\ chat.pc = "responded"
    /\ chat.generation.raised
    /\ chat.router.raised
    /\ chat.retrieval[1].outcome = "PineconeServiceError"
    /\ chat.response.type = "qna"
    /\ chat.response.error = "Pinecone query failed. See logs for details."


----------------------------------------------------------------------------
(* Properties of the reconstruction of a whole document *)

Assembled == ctx.pc = "returned" /\ ctx.fn = "assemble_document_context"
Combined == Join(NonEmptyTexts(ctx.chunks), <<"\n", "\n">>)

\* C21 (as claimed): when the blank-line join of the non-empty chunk texts is longer
\* than max_chars, assemble_document_context returns truncated = true and a text of
\* exactly max_chars characters that ends with the ellipsis; when the join is not
\* longer than max_chars, it returns the whole join and truncated = false.
C21_TruncatesToExactlyMaxChars ==
    (Assembled /\ ctx.max_chars > 0) =>
        IF Len(Combined) > ctx.max_chars
        THEN /\ ctx.truncated
             /\ Len(ctx.text) = ctx.max_chars
             /\ ctx.text[Len(ctx.text)] = Ellipsis
        ELSE ctx.text = Combined /\ ~ctx.truncated

Summarised == ctx.pc = "returned" /\ ctx.fn = "build_summary_context"
\* the snippets of the chunks that have text, in input order
SnippetsInOrder ==
    LET texts == NonEmptyTexts(ctx.chunks)
    IN [i \in 1..Len(texts) |-> Snippet(texts[i], ctx.max_snippet)]
RECURSIVE SnippetsLen(_, _)
SnippetsLen(snippets, n) == IF n = 0 THEN 0 ELSE SnippetsLen(snippets, n - 1) + Len(snippets[n])
\* how many snippets the returned text is made of
SnippetsIncluded ==
    {n \in 0..Len(SnippetsInOrder) :
        ctx.text = Join(SubSeq(SnippetsInOrder, 1, n), <<"\n", "-", "-", "-", "\n">>)}

\* C22: build_summary_context takes the chunks that have text in input order, cuts each
\* to max_snippet characters (marking the cut with an ellipsis), and stops at the first
\* snippet that would take the accumulated snippet length over max_chars: the text
\* returned is the first n snippets joined by the separator line, their lengths sum to
\* at most max_chars, and either no snippet is left or the next one would not fit.
C22_PrefixWithinMaxChars ==
    Summarised =>
        \E n \in SnippetsIncluded :
            /\ SnippetsLen(SnippetsInOrder, n) <= ctx.max_chars
            /\ \/ n = Len(SnippetsInOrder)
               \/ SnippetsLen(SnippetsInOrder, n + 1) > ctx.max_chars

\* a call that left a snippet out although a later, shorter one would have fitted, after
\* skipping a chunk without text and cutting a text
C22_Witness ==
    /\ Summarised
    /\ Len(SnippetsInOrder) < Len(ctx.chunks)
    /\ \E n \in SnippetsIncluded :
        /\ n + 1 < Len(SnippetsInOrder)
        /\ SnippetsLen(SnippetsInOrder, n) + Len(SnippetsInOrder[n + 2]) <= ctx.max_chars
        /\ SnippetsLen(SnippetsInOrder, n + 1) > ctx.max_chars
    /\ \E i \in 1..Len(ctx.chunks) : Len(Strip(ctx.chunks[i].text)) > ctx.max_snippet

Sorted == ctx.pc = "returned" /\ ctx.fn = "sorted"
HasBoth(chunk) == chunk.page_index # <<>> /\ chunk.chunk_index # <<>>

\* C23 (as claimed): sorting a list of retrieved chunks with _document_sort_key puts
\* the chunks that have a page_index and a chunk_index in ascending (page_index,
\* chunk_index) order whatever the retrieval order, and puts every chunk missing
\* page_index or chunk_index after all the chunks that have both.
C23_MissingFieldsSortLast ==
    Sorted =>
        \A i, j \in 1..Len(ctx.sorted) :
            i < j =>
                /\ (HasBoth(ctx.sorted[i]) /\ HasBoth(ctx.sorted[j])) =>
                       ~KeyLess(DocumentSortKey(ctx.sorted[j]), DocumentSortKey(ctx.sorted[i]))
                /\ ~(~HasBoth(ctx.sorted[i]) /\ HasBoth(ctx.sorted[j]))

Fetched == ctx.pc = "returned" /\ ctx.fn = "fetch_full_document_chunks"
\* the first chunk of the top-1 retrieval, whose document is fetched
BestChunk == ctx.chunks[1]
\* a stored vector belongs to the document of the best chunk
SharesIdentity(stored) ==
    IF Truthy(BestChunk.document_id)
    THEN stored.chunk.document_id = BestChunk.document_id
    ELSE stored.chunk.source_file = BestChunk.source_file

\* C24: the fetch for the top-ranked chunk's document makes one query whose filter is
\* equality on that chunk's identity (document_id when it has one, else source_file)
\* and on dataset_name when the request is scoped, with top_k = SUMMARY_DOC_MAX_CHUNKS;
\* it returns at most that many chunks, all of that identity (and dataset); when the
\* chunk has neither identifier it returns no chunks and makes no query.
C24_FetchesOneDocument ==
    Fetched =>
        IF ~Truthy(BestChunk.document_id) /\ BestChunk.source_file = <<>>
        THEN ctx.queries = <<>> /\ ctx.returned = <<>>
        ELSE /\ Len(ctx.queries) = 1
             /\ ctx.queries[1].top_k = settings.SUMMARY_DOC_MAX_CHUNKS
             /\ LET filter == ctx.queries[1].filter
                IN /\ IF Truthy(BestChunk.document_id)
                      THEN /\ "document_id" \in DOMAIN filter
                           /\ "source_file" \notin DOMAIN filter
                           /\ filter["document_id"] = BestChunk.document_id
                      ELSE /\ "source_file" \in DOMAIN filter
                           /\ "document_id" \notin DOMAIN filter
                           /\ filter["source_file"] = BestChunk.source_file
                   /\ IF Truthy(ctx.dataset_name)
                      THEN /\ "dataset_name" \in DOMAIN filter
                           /\ filter["dataset_name"] = ctx.dataset_name
                      ELSE "dataset_name" \notin DOMAIN filter
             /\ Len(ctx.returned) <= settings.SUMMARY_DOC_MAX_CHUNKS
             /\ \A i \in 1..Len(ctx.returned) :
                    /\ SharesIdentity(ctx.returned[i])
                    /\ Truthy(ctx.dataset_name) =>
                           ctx.returned[i].dataset_name = ctx.dataset_name

\* a scoped fetch by document_id that returned SUMMARY_DOC_MAX_CHUNKS chunks while the
\* index holds more chunks of the document, and chunks of the same file outside it
C24_Witness ==
    /\ Fetched
    /\ Truthy(BestChunk.document_id)
    /\ Truthy(ctx.dataset_name)
    /\ Len(ctx.returned) = settings.SUMMARY_DOC_MAX_CHUNKS
    /\ \E v \in StoredChunks :
        /\ SharesIdentity(v)
        /\ v.dataset_name = ctx.dataset_name
        /\ \A i \in 1..Len(ctx.returned) : ctx.returned[i] # v
    /\ \E v \in StoredChunks :
        ~SharesIdentity(v) /\ v.chunk.source_file = BestChunk.source_file

----------------------------------------------------------------------------
(* Properties of the OCR service *)

\* C30: normalize_text is idempotent: applied to its own result it returns that
\* result, for the empty text, for whitespace-only texts, and for texts mixing
\* spaces, tabs and runs of line breaks.
C30_NormalizeIdempotent ==
    (ocrCall.pc = "returned again" /\ ocrCall.fn = "normalize_text") => ocrCall.twice = ocrCall.once

\* a text with a tab, a run of three line breaks and blanks next to a line break was
\* normalised twice, and the first call changed it
C30_Witness ==
    /\ ocrCall.pc = "returned again"
    /\ ocrCall.fn = "normalize_text"
    /\ ocrCall.once # <<>>
    /\ ocrCall.once # ocrCall.text
    /\ \E i \in 1..Len(ocrCall.text) : ocrCall.text[i] = "\t"
    /\ \E i \in 1..(Len(ocrCall.text) - 2) :
        ocrCall.text[i] = "\n" /\ ocrCall.text[i + 1] = "\n" /\ ocrCall.text[i + 2] = "\n"

Extracted == ocrCall.pc = "returned" /\ ocrCall.fn = "extract_text"
FileExtension == Str(Lower(SplitExt(ocrCall.file_name)))
ExtractorOfExtension ==
    [e \in {".pdf", ".doc", ".docx", ".txt"} |->
        IF e = ".pdf" THEN "pdf" ELSE IF e = ".txt" THEN "txt" ELSE "docx"]
ExtractorOfMimeType ==
    [m \in {"application/pdf", "application/msword",
            "application/vnd.openxmlformats-officedocument.wordprocessingml.document",
            "text/plain"} |->
        IF m = "application/pdf" THEN "pdf" ELSE IF m = "text/plain" THEN "txt" ELSE "docx"]

\* C29 (as claimed): extract_text selects the extractor by the file extension, and by
\* the MIME type only when the extension is not of a supported kind, so that a
\* supported extension decides whatever the MIME type says; a file with neither a
\* supported extension nor a supported MIME type fails with the unsupported-format
\* error before any extractor is called.
C29_ExtensionDecidesFirst ==
    Extracted =>
        IF FileExtension \in DOMAIN ExtractorOfExtension
        THEN ocrCall.result.attempted = <<ExtractorOfExtension[FileExtension]>>
        ELSE IF ocrCall.mime_type \in DOMAIN ExtractorOfMimeType
        THEN ocrCall.result.attempted = <<ExtractorOfMimeType[ocrCall.mime_type]>>
        ELSE /\ ocrCall.result.raised
             /\ ocrCall.result.error = "ValueError: Unsupported file type"
             /\ ocrCall.result.attempted = <<>>

Detected == ocrCall.pc = "returned" /\ ocrCall.fn = "detect_language"

\* C28 (as claimed): detect_language never raises: for an empty input, for a primary
\* detector that throws (any exception), and for a fallback detector that throws, it
\* returns 'und'; and every value it returns is 'und' or a lowercase 2-letter code.
C28_NeverRaises ==
    Detected =>
        /\ ~ocrCall.result.raised
        /\ \/ ocrCall.result.value = Und
           \/ /\ Len(ocrCall.result.value) = 2
              /\ \A i \in 1..2 : ocrCall.result.value[i] \in LowerLetters
        /\ Strip(ocrCall.text) = <<>> => ocrCall.result.value = Und
        /\ (ocrCall.primary.kind # "lang" /\ ocrCall.fallback.kind # "langs") =>
               ocrCall.result.value = Und

Processed ==
    /\ ocrCall.fn = "process_document"
    /\ ocrCall.pc \in {"returned", "recorded"}
    /\ ~ocrCall.result.raised
\* the chunk_index values of the chunks of a page, in the order of the result
RECURSIVE IndexesOfPage(_, _)
IndexesOfPage(chunks, page_index) ==
    IF chunks = <<>> THEN <<>>
    ELSE (IF Head(chunks).page_index = page_index THEN <<Head(chunks).chunk_index>>
          ELSE <<>>)
         \o IndexesOfPage(Tail(chunks), page_index)

\* C25 (as claimed): in every process_document result no two chunks share a
\* (page_index, chunk_index), and the chunk_index values of the chunks of each page are
\* exactly 0..k-1 in split order (0-based, contiguous, restarting at 0 on each page),
\* also when the splitter yields empty pieces that are filtered out.
C25_ChunkIndexesContiguous ==
    Processed =>
        LET chunks == ocrCall.result.chunks
        IN /\ \A i, j \in 1..Len(chunks) :
                  (/\ chunks[i].page_index = chunks[j].page_index
                   /\ chunks[i].chunk_index = chunks[j].chunk_index) => i = j
           /\ \A p \in 0..(ocrCall.result.total_page_count - 1) :
                  LET indexes == IndexesOfPage(chunks, p)
                  IN \A k \in 1..Len(indexes) : indexes[k] = k - 1

\* process_document returned a result for a file read as a PDF
ProcessedPdf == Processed /\ SelectExtractor(ocrCall.file_name, ocrCall.mime_type) = "pdf"
Pages == ocrCall.file_bytes.parts
\* the 0-based indexes of the pages whose normalised text is not empty
PagesWithText == {p \in 0..(Len(Pages) - 1) : NormalizeText(Pages[p + 1]) # <<>>}

\* C26: for a PDF with any number of pages process_document returns total_page_count
\* equal to the number of pages and pages_without_text equal to the number of pages
\* whose normalised text is empty; the page_index values of its chunks are exactly
\* the indexes of the pages that have text, and the text of each chunk is a piece of
\* the page its page_index names.
C26_PageCountsAndIndexes ==
    ProcessedPdf =>
        LET chunks == ocrCall.result.chunks
        IN /\ ocrCall.result.total_page_count = Len(Pages)
           /\ ocrCall.result.pages_without_text = Len(Pages) - Cardinality(PagesWithText)
           /\ {chunks[i].page_index : i \in 1..Len(chunks)} = PagesWithText
           /\ \A i \in 1..Len(chunks) :
                  \E k \in 1..Len(SplitText(NormalizeText(Pages[chunks[i].page_index + 1]),
                                            ocrCall.splitter)) :
                      Strip(SplitText(NormalizeText(Pages[chunks[i].page_index + 1]),
                                      ocrCall.splitter)[k]) = chunks[i].text

\* a three-page PDF whose first page has no text and whose other pages have, the last
\* one giving more than one chunk
C26_Witness ==
    /\ ProcessedPdf
    /\ Len(Pages) = 3
    /\ PagesWithText = {1, 2}
    /\ Pages[1] # <<>>
    /\ Len(IndexesOfPage(ocrCall.result.chunks, 2)) > 1
    /\ Len(IndexesOfPage(ocrCall.result.chunks, 1)) = 1

\* what extract_text gave process_document
ExtractedForCall ==
    ExtractText(ocrCall.file_bytes, ocrCall.file_name, ocrCall.mime_type)
\* process_document was called on a file whose extracted text is entirely empty
EmptyDocument ==
    /\ ocrCall.fn = "process_document"
    /\ ocrCall.pc \in {"returned", "recorded"}
    /\ ~ExtractedForCall.raised
    /\ Strip(ExtractedForCall.text) = <<>>

\* C27: when the extracted text of a document is entirely empty, process_document
\* returns without raising a result with chunks = [], chunks_emitted = 0 and language
\* 'und' that keeps the extracted total_page_count and pages_without_text; the caller
\* then records the doc as failed with 'No extractable text found'.
C27_EmptyDocumentFailsInCaller ==
    EmptyDocument =>
        /\ ~ocrCall.result.raised
        /\ ocrCall.result.chunks = <<>>
        /\ ocrCall.result.chunks_emitted = 0
        /\ ocrCall.result.language = Und
        /\ ocrCall.result.total_page_count = ExtractedForCall.total_pages
        /\ ocrCall.result.pages_without_text = ExtractedForCall.pages_without_text
        /\ ocrCall.pc = "recorded" =>
               /\ ocrCall.doc.status = "failed"
               /\ ocrCall.doc.message = "No extractable text found"

\* the caller recorded the outcome of a two-page PDF without text on either page, with
\* language detectors that would have raised had they been called
C27_Witness ==
    /\ EmptyDocument
    /\ ocrCall.pc = "recorded"
    /\ ocrCall.result.total_page_count = 2
    /\ ocrCall.result.pages_without_text = 2
    /\ ocrCall.primary.kind = "Exception"

----------------------------------------------------------------------------
(* Properties of the counters and statuses run_pipeline leaves in the ledger *)

\* C31 (as claimed): at every point during and after a run_pipeline run, with force or
\* without, the job's counters satisfy files_processed + files_failed <=
\* files_discovered: no file is counted both as processed and as failed.
C31_ProcessedPlusFailedWithinDiscovered ==
    \A j \in 1..Len(jobs) :
        jobs[j].counters.files_processed + jobs[j].counters.files_failed
            <= jobs[j].counters.files_discovered

\* C32 (as claimed): when two run_pipeline runs for one dataset_name overlap, the shared
\* job's counters at the moment a run calls finish_job equal that run's own tallies:
\* the later run's create_job does not erase increments the earlier run has written,
\* and the increments of the two runs are not mixed in one counter.
C32_CountersAreTheRunsOwn ==
    [][\A r \in RunIds :
          (runs[r].pc = "loop" /\ runs'[r].pc = "returned")
          => /\ jobs'[runs[r].job_id].counters.files_processed = runs[r].files_processed
             /\ jobs'[runs[r].job_id].counters.files_failed = runs[r].files_failed
             /\ jobs'[runs[r].job_id].counters.files_discovered = Len(runs[r].files)
             /\ jobs'[runs[r].job_id].embedding_counters.files_embedded
                    = runs[r].files_embedded]_vars

\* the docs of the files a run has been through: those it created or reset
DocsOfRun(r) ==
    {d \in 1..Len(docs') :
        /\ docs'[d].dataset_name = runs'[r].dataset_name
        /\ \E k \in 1..Len(runs'[r].files) :
              /\ k <= (IF runs'[r].pc = "raised" THEN runs'[r].i ELSE runs'[r].i - 1)
              /\ docs'[d].source_drive_file_id = runs'[r].files[k]}

\* C33 (as claimed): when a run_pipeline run ends, by returning or by raising, every
\* doc it created or reset has a status among ok, skipped and failed; none is left
\* queued or processing, also when a storage call made between create_doc and the
\* per-file try block fails.
C33_NoDocLeftInFlight ==
    [][\A r \in RunIds :
          (runs[r].pc = "loop" /\ runs'[r].pc \in {"returned", "raised"})
          => \A d \in DocsOfRun(r) : docs'[d].status \in {"ok", "skipped", "failed"}]_vars

\* C34: the terminal status finish_job writes at the end of a run is 'completed'
\* exactly when no file failed in the run (also when every file was skipped or none
\* was discovered), 'completed_with_errors' exactly when a file failed and a file was
\* processed or embedded, and 'failed' exactly when a file failed and none was
\* processed; a failure to list the input folder sets 'failed' directly.
C34_TerminalStatusFromTallies ==
    [][\A r \in RunIds :
          /\ (runs[r].pc = "loop" /\ runs'[r].pc = "returned") =>
                LET status == jobs'[runs[r].job_id].status
                    failed == runs[r].files_failed > 0
                    processed == runs[r].files_processed > 0 \/ runs[r].files_embedded > 0
                IN /\ status = "completed" <=> ~failed
                   /\ status = "completed_with_errors" <=> (failed /\ processed)
                   /\ status = "failed" <=> (failed /\ runs[r].files_processed = 0)
          /\ (runs[r].pc = "idle" /\ runs'[r].pc = "raised") =>
                jobs'[runs'[r].job_id].status = "failed"]_vars

\* one run has returned with a file failed and a file processed, the other with no
\* file discovered
C34_Witness ==
    /\ \E r \in RunIds :
          /\ runs[r].pc = "returned"
          /\ runs[r].files_failed > 0
          /\ runs[r].files_processed > 0
          /\ jobs[runs[r].job_id].status = "completed_with_errors"
    /\ \E r \in RunIds :
          /\ runs[r].pc = "returned"
          /\ runs[r].files = <<>>

\* C36 (as claimed): the embeddings_stored that run_pipeline returns equals the total
\* the run added to embedding_counters.embeddings_stored of its job, which counts only
\* the vectors whose upsert succeeded; also when an embedding call or the upsert fails
\* in a run without force.  Stated for a run that is the only one started, whose job
\* counters therefore hold what this run added since create_job.
C36_ReturnedEmbeddingsAreTheStored ==
    \A r \in RunIds :
        (Started = {r} /\ runs[r].pc = "returned")
        => runs[r].embeddings_stored
               = jobs[runs[r].job_id].embedding_counters.embeddings_stored

(* Properties of the language flag of an OCR result *)

\* C38 (as claimed): in every result of process_document, lang_undetected is true
\* exactly when language is 'und', the result of a document without chunks included.
C38_UndetectedIffUnd ==
    Processed => (ocrCall.result.lang_undetected <=> ocrCall.result.language = Und)

----------------------------------------------------------------------------
(* Properties of the type of a chat response *)

\* the agent the graph ran after decide_next_step
AgentRun == chat.trace[2]

\* C37: the type of a ChatResponse is 'qna' exactly when the router sent the request
\* to question answering and 'summary' exactly when it sent it to summarization; each
\* agent sets a non-empty answer or summary, so a completed graph run never yields a
\* response of type 'error' or 'unknown'.
C37_TypeIsTheRoute ==
    chat.pc = "responded" =>
        /\ Len(chat.trace) = 2
        /\ AgentRun = Successor("decide_next_step", [next_step |-> chat.state.next_step])
        /\ chat.response.type = "qna" <=> AgentRun = "question_answering_agent"
        /\ chat.response.type = "summary" <=> AgentRun = "summary_generation_agent"
        /\ chat.response.type = "qna" => chat.response.answer # ""
        /\ chat.response.type = "summary" => chat.response.summary # ""
        /\ chat.response.type \notin {"error", "unknown"}

\* a summary response whose model returned only whitespace, after a failed retrieval
C37_Witness ==
    /\ chat.pc = "responded"
    /\ AgentRun = "summary_generation_agent"
    /\ chat.generation.invoked
    /\ ~chat.generation.raised
    /\ Truthy(chat.state.error)
    /\ chat.response.type = "summary"
    /\ chat.response.summary = "I was unable to create a summary with the available information."

----------------------------------------------------------------------------
(* Properties of the skip of existing outputs in process_ocr *)

\* a step of run r that handled its next file and went on with the loop
HandledFile(r) ==
    /\ runs[r].pc = "loop"
    /\ runs'[r].pc = "loop"
    /\ runs'[r].i = runs[r].i + 1

\* the doc of the file run r has just handled
HandledDoc(r) ==
    docs'[FindDoc(docs', runs[r].dataset_name, runs[r].files[runs[r].i])]

\* C39 (as claimed): in process_ocr without force, a file whose output JSON already
\* exists is not downloaded, processed or uploaded: its doc ends 'skipped' with the id
\* of an existing output file, and no job counter changes for it.  With force the
\* file is downloaded again whatever exists.
C39_ExistingOutputIsSkipped ==
    [][\A r \in RunIds :
          HandledFile(r) =>
             LET file_id == runs[r].files[runs[r].i]
                 ids == ExistingOutputIds(outputs, runs[r].dataset_name, file_id)
             IN /\ (~runs[r].force /\ ids # {}) =>
                      /\ runs'[r].drive_calls = runs[r].drive_calls
                      /\ outputs' = outputs
                      /\ HandledDoc(r).status = "skipped"
                      /\ HandledDoc(r).output_drive_file_id \in ids
                      /\ jobs'[runs[r].job_id].counters = jobs[runs[r].job_id].counters
                /\ runs[r].force => <<file_id, "download">> \in runs'[r].drive_calls]_vars

----------------------------------------------------------------------------
(* Properties of the ids of the upserted vectors *)

\* C35 (as claimed): within one dataset the ids of the vectors upserted for chunks of
\* different source files are distinct, also when the metadata extraction fails or
\* returns an empty document_id; within one file the ids are distinct for distinct
\* (page_index, chunk_index).
C35_VectorIdsDistinct ==
    (ctx.pc = "loop" /\ ctx.fn = "run_pipeline") =>
        \A v, w \in ctx.upserted :
            /\ v.file # w.file => v.id # w.id
            /\ (v.file = w.file /\ <<v.page_index, v.chunk_index>>
                                       # <<w.page_index, w.chunk_index>>) => v.id # w.id
====
